---------------------------- MODULE Spec2Model ----------------------------
(***************************************************************************)
(* Model of the spreadsheet-backed inventory / sales bot                   *)
(* (CarlBalansag/DiscordInventory): the record reader and writer of        *)
(* google_sheets.py and the guided add / sale / edit flows of commands/.   *)
(*                                                                         *)
(* Text typed by the user or stored in a cell is a sequence of one-        *)
(* character strings, so that strip(), upper(), int(), float(), str() and  *)
(* re.match() are computed character by character as Python computes      *)
(* them.  A float is the exact decimal [k, neg, m, e] = (-1)^neg * m /     *)
(* 10^e (k = "num"), or nan / inf.                                         *)
(***************************************************************************)
EXTENDS Integers, Sequences, FiniteSets, TLC

VARIABLES
    pc,          \* position of the interaction: which form or view is open
    registered,  \* the user has a row in the users table (database.py)
    form,        \* fields an interaction holds in memory between its steps
    sheet,       \* the spreadsheet: sheet name -> sequence of rows (row -> column -> text)
    white,       \* cells whose text colour was set to white: {<<sheet name, column, row>>}
    calls,       \* backing-store calls issued by the current run, in order
    msgs,        \* messages sent to the user by the current run, in order
    ret          \* value returned by the last reader / writer call

vars == <<pc, registered, form, sheet, white, calls, msgs, ret>>

-----------------------------------------------------------------------------
(* Text *)

Digits == {"0", "1", "2", "3", "4", "5", "6", "7", "8", "9"}

DigitVal ==
    "0" :> 0 @@ "1" :> 1 @@ "2" :> 2 @@ "3" :> 3 @@ "4" :> 4 @@
    "5" :> 5 @@ "6" :> 6 @@ "7" :> 7 @@ "8" :> 8 @@ "9" :> 9

DigitChr == <<"0", "1", "2", "3", "4", "5", "6", "7", "8", "9">>

\* characters str.strip(), int() and float() treat as white space
WhiteSpace == {" ", "\t", "\n"}

RECURSIVE LStrip(_)
LStrip(s) ==
    IF s # <<>> /\ Head(s) \in WhiteSpace THEN LStrip(Tail(s)) ELSE s

RECURSIVE RStrip(_)
RStrip(s) ==
    IF s # <<>> /\ s[Len(s)] \in WhiteSpace
    THEN RStrip(SubSeq(s, 1, Len(s) - 1))
    ELSE s

\* str.strip()
Strip(s) == RStrip(LStrip(s))

UpperChr(c) ==
    CASE c = "a" -> "A" [] c = "e" -> "E" [] c = "f" -> "F" [] c = "i" -> "I"
      [] c = "n" -> "N" [] c = "r" -> "R" [] c = "s" -> "S" [] c = "t" -> "T"
      [] c = "u" -> "U" [] c = "y" -> "Y" [] OTHER -> c

LowerChr(c) ==
    CASE c = "A" -> "a" [] c = "E" -> "e" [] c = "F" -> "f" [] c = "I" -> "i"
      [] c = "N" -> "n" [] c = "R" -> "r" [] c = "S" -> "s" [] c = "T" -> "t"
      [] c = "U" -> "u" [] c = "Y" -> "y" [] OTHER -> c

\* str.upper() / str.lower() over the letters the model's texts use
Upper(s) == [i \in 1..Len(s) |-> UpperChr(s[i])]
Lower(s) == [i \in 1..Len(s) |-> LowerChr(s[i])]

\* the slice s[:n]
Take(s, n) == SubSeq(s, 1, IF Len(s) < n THEN Len(s) ELSE n)

\* str.replace(c, '') for a one-character c
RECURSIVE Remove(_, _)
Remove(s, c) ==
    IF s = <<>> THEN <<>>
    ELSE IF Head(s) = c THEN Remove(Tail(s), c)
    ELSE <<Head(s)>> \o Remove(Tail(s), c)

\* position of the first character of s that is in cs, 0 when there is none
RECURSIVE FindFirst(_, _, _)
FindFirst(s, cs, i) ==
    IF i > Len(s) THEN 0
    ELSE IF s[i] \in cs THEN i
    ELSE FindFirst(s, cs, i + 1)

\* re.match(r'^\d{2}/\d{2}/\d{4}$', s): '$' also matches before one final newline
DateMatches(s) ==
    LET t == IF Len(s) = 11 /\ s[11] = "\n" THEN SubSeq(s, 1, 10) ELSE s
    IN  /\ Len(t) = 10
        /\ \A i \in {1, 2, 4, 5, 7, 8, 9, 10} : t[i] \in Digits
        /\ t[3] = "/"
        /\ t[6] = "/"

-----------------------------------------------------------------------------
(* Numbers *)

\* a run of digits in which single underscores may stand between digits
DigitRun(s) ==
    /\ s # <<>>
    /\ s[1] \in Digits
    /\ s[Len(s)] \in Digits
    /\ \A i \in 1..Len(s) : s[i] \in Digits \cup {"_"}
    /\ \A i \in 1..(Len(s) - 1) : ~(s[i] = "_" /\ s[i + 1] = "_")

RECURSIVE DigitsValue(_)
DigitsValue(s) ==
    IF s = <<>> THEN 0
    ELSE IF s[Len(s)] = "_" THEN DigitsValue(SubSeq(s, 1, Len(s) - 1))
    ELSE 10 * DigitsValue(SubSeq(s, 1, Len(s) - 1)) + DigitVal[s[Len(s)]]

RECURSIVE Pow10(_)
Pow10(n) == IF n <= 0 THEN 1 ELSE 10 * Pow10(n - 1)

HasSign(s) == s # <<>> /\ s[1] \in {"+", "-"}
Unsigned(s) == IF HasSign(s) THEN Tail(s) ELSE s

\* int(s): [ok |-> FALSE] stands for ValueError
IntParse(s) ==
    LET t == Strip(s)
        body == Unsigned(t)
    IN  IF DigitRun(body)
        THEN [ok |-> TRUE,
              val |-> IF HasSign(t) /\ t[1] = "-" THEN 0 - DigitsValue(body)
                      ELSE DigitsValue(body)]
        ELSE [ok |-> FALSE, val |-> 0]

\* str(n) for an int
RECURSIVE NatStr(_)
NatStr(n) ==
    IF n < 10 THEN <<DigitChr[n + 1]>>
    ELSE NatStr(n \div 10) \o <<DigitChr[(n % 10) + 1]>>

IntStr(n) == IF n < 0 THEN <<"-">> \o NatStr(0 - n) ELSE NatStr(n)

\* a decimal brought to lowest terms: no trailing zero in the fraction
RECURSIVE Normalize(_)
Normalize(f) ==
    IF f.k = "num" /\ f.e > 0 /\ f.m % 10 = 0
    THEN Normalize([f EXCEPT !.m = f.m \div 10, !.e = f.e - 1])
    ELSE f

Num(neg, m, e) == Normalize([k |-> "num", neg |-> neg, m |-> m, e |-> e])
FloatZero == Num(FALSE, 0, 0)
BadFloat == [ok |-> FALSE, val |-> FloatZero]

\* the digits[.digits] part of a float literal
MantissaOk(s) ==
    LET dot == FindFirst(s, {"."}, 1)
        ip == IF dot = 0 THEN s ELSE SubSeq(s, 1, dot - 1)
        fp == IF dot = 0 THEN <<>> ELSE SubSeq(s, dot + 1, Len(s))
    IN  /\ (ip # <<>> \/ fp # <<>>)
        /\ (ip # <<>> => DigitRun(ip))
        /\ (fp # <<>> => DigitRun(fp))

MantissaDigits(s) == Remove(Remove(s, "."), "_")

MantissaScale(s) ==
    LET dot == FindFirst(s, {"."}, 1)
    IN  IF dot = 0 THEN 0 ELSE Len(Remove(SubSeq(s, dot + 1, Len(s)), "_"))

\* float(s): [ok |-> FALSE] stands for ValueError
FloatParse(s) ==
    LET t == Strip(s)
        neg == HasSign(t) /\ t[1] = "-"
        body == Unsigned(t)
        word == Lower(body)
        ex == FindFirst(body, {"e", "E"}, 1)
        mant == IF ex = 0 THEN body ELSE SubSeq(body, 1, ex - 1)
        expo == IF ex = 0 THEN <<>> ELSE SubSeq(body, ex + 1, Len(body))
        expOk == ex = 0 \/ DigitRun(Unsigned(expo))
        expVal == IF ex = 0 THEN 0
                  ELSE IF HasSign(expo) /\ expo[1] = "-"
                       THEN 0 - DigitsValue(Unsigned(expo))
                       ELSE DigitsValue(Unsigned(expo))
        scale == MantissaScale(mant) - expVal
        m == DigitsValue(MantissaDigits(mant))
    IN  IF word = <<"n", "a", "n">>
        THEN [ok |-> TRUE, val |-> [k |-> "nan", neg |-> neg, m |-> 0, e |-> 0]]
        ELSE IF word \in {<<"i", "n", "f">>, <<"i", "n", "f", "i", "n", "i", "t", "y">>}
        THEN [ok |-> TRUE, val |-> [k |-> "inf", neg |-> neg, m |-> 0, e |-> 0]]
        ELSE IF MantissaOk(mant) /\ expOk
        THEN [ok |-> TRUE,
              val |-> IF scale >= 0 THEN Num(neg, m, scale)
                      ELSE Num(neg, m * Pow10(0 - scale), 0)]
        ELSE BadFloat

\* a sign test that lets every float through
FloatNeverLtZero(f) == FALSE

\* x < 0 for a float: false for nan and for -0.0
FloatLtZero(f) ==
    \/ f.k = "inf" /\ f.neg
    \/ f.k = "num" /\ f.neg /\ f.m > 0

\* x # 0 for a float, whatever its sign
FloatNonZero(f) ==
    \/ f.k = "inf"
    \/ f.k = "num" /\ f.m > 0

\* x > 0 for a float
FloatGtZero(f) ==
    \/ f.k = "inf" /\ ~f.neg
    \/ f.k = "num" /\ ~f.neg /\ f.m > 0

RECURSIVE ZeroPad(_, _)
ZeroPad(s, n) == IF Len(s) >= n THEN s ELSE ZeroPad(<<"0">> \o s, n)

\* str(x) for a float in the range repr() prints without an exponent
FloatStr(f) ==
    LET sign == IF f.neg THEN <<"-">> ELSE <<>>
    IN  IF f.k = "nan" THEN <<"n", "a", "n">>
        ELSE IF f.k = "inf" THEN sign \o <<"i", "n", "f">>
        ELSE sign \o NatStr(f.m \div Pow10(f.e)) \o <<".">> \o
             (IF f.e = 0 THEN <<"0">> ELSE ZeroPad(NatStr(f.m % Pow10(f.e)), f.e))

\* x * n for a float x and an int n >= 0
FloatTimesInt(f, n) ==
    IF f.k = "num" THEN Num(f.neg, f.m * n, f.e)
    ELSE IF n = 0 THEN [k |-> "nan", neg |-> f.neg, m |-> 0, e |-> 0]
    ELSE f


\* x / y for floats; exact while the quotient has at most MaxFrac decimals
MaxFrac == 6

RECURSIVE ExactDiv(_, _, _)
ExactDiv(n, d, k) ==
    IF (n * Pow10(k)) % d = 0 \/ k >= MaxFrac
    THEN [m |-> (n * Pow10(k)) \div d, e |-> k]
    ELSE ExactDiv(n, d, k + 1)

FloatDiv(a, b) ==
    IF a.k = "nan" \/ b.k = "nan" \/ (a.k = "inf" /\ b.k = "inf")
    THEN [k |-> "nan", neg |-> FALSE, m |-> 0, e |-> 0]
    ELSE IF a.k = "inf" THEN [a EXCEPT !.neg = (a.neg # b.neg)]
    ELSE IF b.k = "inf" THEN Num(a.neg # b.neg, 0, 0)
    ELSE LET q == ExactDiv(a.m * Pow10(b.e), b.m * Pow10(a.e), 0)
         IN  Num(a.neg # b.neg, q.m, q.e)

-----------------------------------------------------------------------------
(* The spreadsheet (the external data-access collaborator behind self.service) *)

\* columns A..T of the range read_inventory fetches
ColLetters ==
    <<"A", "B", "C", "D", "E", "F", "G", "H", "I", "J",
      "K", "L", "M", "N", "O", "P", "Q", "R", "S", "T">>

NCols == 20

\* column letter -> 1-based position in the grid
ColIndex(c) == CHOOSE i \in 1..NCols : ColLetters[i] = c

BlankRow == [i \in 1..NCols |-> <<>>]

\* config.SALES_SHEET_NAME and the sheet tab a user registers with /setup
SALES_SHEET_NAME == "Sales"
UserSheetName == "Transactions"
SheetNames == {UserSheetName, SALES_SHEET_NAME}

\* config.COLUMN_MAPPING / config.SALES_COLUMN_MAPPING: field -> column letter
COLUMN_MAPPING ==
    [uuid |-> "A", product_name |-> "B", date_purchased |-> "C", quantity |-> "D",
     store |-> "H", links |-> "J", cost_per_unit |-> "L", tax |-> "M",
     retail_price |-> "O"]

SALES_COLUMN_MAPPING ==
    [product_name |-> "B", sold_date |-> "C", quantity_sold |-> "D",
     price_per_unit |-> "F", shipping_cost |-> "H"]

\* the default start_row of the readers: rows 1..7 are headers
StartRow == 8

\* values().get() drops the empty cells that end a row ...
RECURSIVE TrimCells(_)
TrimCells(row) ==
    IF row # <<>> /\ row[Len(row)] = <<>>
    THEN TrimCells(SubSeq(row, 1, Len(row) - 1))
    ELSE row

\* ... and the empty rows that end the range
RECURSIVE TrimRows(_)
TrimRows(rows) ==
    IF rows # <<>> /\ rows[Len(rows)] = <<>>
    THEN TrimRows(SubSeq(rows, 1, Len(rows) - 1))
    ELSE rows

\* values().get(range = "<name>!<c1><r1>:<c2><r2>"): the rows r1..r2 of the grid
\* (none when r2 < r1), each cut to the columns c1..c2
ValuesGet(grid, c1, r1, c2, r2) ==
    LET hi == IF r2 < Len(grid) THEN r2 ELSE Len(grid)
        n == IF hi >= r1 THEN hi - r1 + 1 ELSE 0
    IN  TrimRows([i \in 1..n |->
            TrimCells(SubSeq(grid[r1 + i - 1], ColIndex(c1), ColIndex(c2)))])

\* values().get(range = "<name>!B:B"): column B of every row of the grid
ColumnGet(grid, c) == ValuesGet(grid, c, 1, c, Len(grid))

\* values().batchUpdate(data = updates): every addressed cell takes its value
RECURSIVE ApplyUpdates(_, _)
ApplyUpdates(book, updates) ==
    IF updates = <<>> THEN book
    ELSE LET u == Head(updates)
             g == book[u.sheet]
             g2 == IF u.row \in 1..Len(g)
                   THEN [g EXCEPT ![u.row][ColIndex(u.col)] = u.value]
                   ELSE g
         IN  ApplyUpdates([book EXCEPT ![u.sheet] = g2], Tail(updates))

\* deleteDimension taking endIndex as the last index removed
DeleteDimensionInclusive(grid, startIndex, endIndex) ==
    [i \in 1..(Len(grid) - (endIndex - startIndex + 1)) |->
        IF i <= startIndex THEN grid[i] ELSE grid[i + (endIndex - startIndex + 1)]]

\* batchUpdate(deleteDimension ROWS [startIndex, endIndex)), 0-indexed
DeleteDimension(grid, startIndex, endIndex) ==
    [i \in 1..(Len(grid) - (endIndex - startIndex)) |->
        IF i <= startIndex THEN grid[i] ELSE grid[i + (endIndex - startIndex)]]

-----------------------------------------------------------------------------
(* Record Writer: GoogleSheetsManager.write_data_to_row *)

\* a (field, value) item of the data dict; null stands for a value of None
Item(field, text) == [field |-> field, null |-> FALSE, text |-> text]
NoneItem(field) == [field |-> field, null |-> TRUE, text |-> <<>>]

\* the loop's test without "value is not None"
WriteKeepsMapped(d, mapping) == d.field \in DOMAIN mapping

\* the loop's test: the field is mapped and its value is not None
WriteKeeps(d, mapping) == d.field \in DOMAIN mapping /\ ~d.null

\* a kept item addressed with a 0-indexed row
CellUpdateZeroIndexed(sheet_name, row_number, d, mapping) ==
    [sheet |-> sheet_name, col |-> mapping[d.field], row |-> row_number - 1,
     value |-> d.text]

\* the cell a kept item is written to: "<sheet_name>!<column><row_number>"
CellUpdate(sheet_name, row_number, d, mapping) ==
    [sheet |-> sheet_name, col |-> mapping[d.field], row |-> row_number,
     value |-> d.text]

\* update_data: one cell update per kept item, in the dict's order
RECURSIVE UpdateData(_, _, _, _)
UpdateData(sheet_name, row_number, data, mapping) ==
    IF data = <<>> THEN <<>>
    ELSE (IF WriteKeeps(Head(data), mapping)
          THEN <<CellUpdate(sheet_name, row_number, Head(data), mapping)>>
          ELSE <<>>)
         \o UpdateData(sheet_name, row_number, Tail(data), mapping)

\* write_data_to_row: the value returned ("raise" for the re-raised exception),
\* the batches sent to values().batchUpdate and the spreadsheet afterwards;
\* apiOk tells whether the spreadsheet accepts the batch
WriteDataToRow(book, sheet_name, row_number, data, mapping, apiOk) ==
    LET update_data == UpdateData(sheet_name, row_number, data, mapping)
    IN  IF update_data = <<>>
        THEN [result |-> "False", batches |-> <<>>, book |-> book]
        ELSE IF apiOk
        THEN [result |-> "True", batches |-> <<update_data>>,
              book |-> ApplyUpdates(book, update_data)]
        ELSE [result |-> "raise", batches |-> <<update_data>>, book |-> book]

\* write_formula: one batch holding the one cell
WriteFormula(book, sheet_name, col, row_number, formula, apiOk) ==
    LET update_data == <<[sheet |-> sheet_name, col |-> col, row |-> row_number,
                          value |-> formula]>>
    IN  IF apiOk
        THEN [result |-> "True", book |-> ApplyUpdates(book, update_data)]
        ELSE [result |-> "raise", book |-> book]

-----------------------------------------------------------------------------
(* Record Reader: GoogleSheetsManager.read_inventory / read_sales *)

\* while len(row) < n: row.append('')
PadRow(row, n) ==
    IF Len(row) >= n THEN row ELSE row \o [i \in 1..(n - Len(row)) |-> <<>>]

\* str(x).replace('$', '').replace(',', '')
CurrencyClean(s) == Remove(Remove(s, "$"), ",")

\* EmptyName without the strip(): only the empty text counts as no name
EmptyNameNoStrip(product_name) == product_name = <<>>

\* "not product_name or str(product_name).strip() == ''"
EmptyName(product_name) == product_name = <<>> \/ Strip(product_name) = <<>>

\* "sold_checkbox and str(sold_checkbox).upper() in ['TRUE', 'YES', '1']"
SoldChecked(sold_checkbox) ==
    /\ sold_checkbox # <<>>
    /\ Upper(sold_checkbox) \in {<<"T", "R", "U", "E">>, <<"Y", "E", "S">>, <<"1">>}

\* the two "continue" tests of read_inventory, on a padded row of A:T
InventorySkips(row) == EmptyName(row[2]) \/ SoldChecked(row[20])

\* the "continue" test of read_sales, on a padded row of B:H
SalesSkips(row) == EmptyName(row[1])

\* row_number of the record decoded from values[row_index] (row_index from 0)
RowNumber(start_row, row_index) == start_row + row_index

\* tax per unit: tax_total / qty_purchased, 0.0 on any failure or quantity <= 0
TaxPerUnit(tax_total, qty_purchased) ==
    IF tax_total # <<>> /\ qty_purchased # <<>>
    THEN LET tax_float == FloatParse(CurrencyClean(tax_total))
             qty_float == FloatParse(Remove(qty_purchased, ","))
         IN  IF ~tax_float.ok \/ ~qty_float.ok THEN FloatZero
             ELSE IF FloatGtZero(qty_float.val)
             THEN FloatDiv(tax_float.val, qty_float.val)
             ELSE FloatZero
    ELSE FloatZero

\* float(clean(x)) if x else 0.0, 0.0 on ValueError
CurrencyOrZero(x) ==
    IF x = <<>> THEN FloatZero
    ELSE LET f == FloatParse(CurrencyClean(x))
         IN  IF f.ok THEN f.val ELSE FloatZero

\* int(str(x).replace(',', '')) if x else 0, 0 on ValueError
IntOrZero(x) ==
    IF x = <<>> THEN 0
    ELSE LET n == IntParse(Remove(x, ","))
         IN  IF n.ok THEN n.val ELSE 0

InventoryRecord(row, start_row, row_index) ==
    [uuid |-> Strip(row[1]),
     product_name |-> Strip(row[2]),
     date_purchased |-> Strip(row[3]),
     qty_available |-> IntOrZero(row[5]),
     cost_per_unit |-> CurrencyOrZero(row[12]),
     tax_per_unit |-> TaxPerUnit(row[13], row[4]),
     row_number |-> RowNumber(start_row, row_index)]

SaleRecord(row, start_row, row_index) ==
    [product_name |-> Strip(row[1]),
     sold_date |-> Strip(row[2]),
     quantity_sold |-> IntOrZero(row[3]),
     price_per_unit |-> CurrencyOrZero(row[5]),
     shipping_cost |-> CurrencyOrZero(row[7]),
     row_number |-> RowNumber(start_row, row_index)]

\* the rows of values[i..] that read_inventory keeps, padded
RECURSIVE KeptRows(_, _)
KeptRows(values, i) ==
    IF i > Len(values) THEN <<>>
    ELSE LET row == PadRow(values[i], 20)
         IN  (IF InventorySkips(row) THEN <<>> ELSE <<row>>) \o KeptRows(values, i + 1)

\* InventoryItems numbering the records by their index after filtering
InventoryItemsPostFilter(values, start_row, i) ==
    LET kept == KeptRows(values, i)
    IN  [j \in 1..Len(kept) |-> InventoryRecord(kept[j], start_row, j - 1)]

\* the loop of read_inventory over values[i..], i from 1 (row_index = i - 1)
RECURSIVE InventoryItems(_, _, _)
InventoryItems(values, start_row, i) ==
    IF i > Len(values) THEN <<>>
    ELSE LET row == PadRow(values[i], 20)
         IN  (IF InventorySkips(row) THEN <<>>
              ELSE <<InventoryRecord(row, start_row, i - 1)>>)
             \o InventoryItems(values, start_row, i + 1)

RECURSIVE SalesItems(_, _, _)
SalesItems(values, start_row, i) ==
    IF i > Len(values) THEN <<>>
    ELSE LET row == PadRow(values[i], 7)
         IN  (IF SalesSkips(row) THEN <<>>
              ELSE <<SaleRecord(row, start_row, i - 1)>>)
             \o SalesItems(values, start_row, i + 1)

\* last_row = len(values) of column B
LastRow(grid) == Len(ColumnGet(grid, "B"))

ReadInventory(grid, start_row) ==
    LET last_row == LastRow(grid)
    IN  IF last_row < start_row THEN <<>>
        ELSE InventoryItems(ValuesGet(grid, "A", start_row, "T", last_row - 1),
                            start_row, 1)

ReadSales(grid, start_row) ==
    LET last_row == LastRow(grid)
    IN  IF last_row < start_row THEN <<>>
        ELSE SalesItems(ValuesGet(grid, "B", start_row, "H", last_row - 1),
                        start_row, 1)

-----------------------------------------------------------------------------
(* Row Lifecycle Manager *)

\* The Apps Script web app behind call_apps_script ('addRowAboveTotalSelective',
\* 'addRowAboveTotalSelective_Sales'): inserts an empty row above the totals
\* row, the last occupied row of column B, and reports the new row's position.
NewRowPosition(grid) == IF LastRow(grid) = 0 THEN 1 ELSE LastRow(grid)

InsertRowAboveTotal(grid) ==
    LET p == NewRowPosition(grid)
    IN  SubSeq(grid, 1, p - 1) \o <<BlankRow>> \o SubSeq(grid, p, Len(grid))

\* one backing-store call of a run, as the log keeps it
Call(op, sheet_name, row_number, cells, result) ==
    [op |-> op, sheet |-> sheet_name, row |-> row_number, cells |-> cells,
     result |-> result]

\* an except branch that answers as if the call had gone through
AnswerWithoutError(kind, detail) == [kind |-> "success", detail |-> ""]

\* a message sent to the user; detail is the text of the exception it carries
Msg(kind) == [kind |-> kind, detail |-> ""]
ErrorMsg(kind, detail) == [kind |-> kind, detail |-> detail]

\* user['spreadsheet_id'] and config.DASHBOARD_BASE_URL
SpreadsheetId == <<"sid">>
DASHBOARD_BASE_URL == <<"http://localhost:10000">>

\* a dashboard URL that names the spreadsheet only
DashboardUrlNoId(product_uuid) ==
    DASHBOARD_BASE_URL \o <<"/product/">> \o <<"?s=">> \o SpreadsheetId

\* f"{config.DASHBOARD_BASE_URL}/product/{product_uuid}?s={user['spreadsheet_id']}"
DashboardUrl(product_uuid) ==
    DASHBOARD_BASE_URL \o <<"/product/">> \o product_uuid \o <<"?s=">> \o SpreadsheetId

\* f'=HYPERLINK("{dashboard_url}", "{product_name}")'
HyperlinkFormula(dashboard_url, product_name) ==
    <<"=HYPERLINK(\"">> \o dashboard_url \o <<"\", \"">> \o product_name \o <<"\")">>

-----------------------------------------------------------------------------
(* Guided Input Flow: /add (commands/add.py) *)

\* Step1Error with the quantity check left out
Step1ErrorNoQuantityCheck(date_purchased, quantity, cost_per_unit, tax) ==
    LET c == FloatParse(cost_per_unit)
        t == FloatParse(tax)
    IN  IF ~DateMatches(date_purchased) THEN "invalid_date"
        ELSE IF ~c.ok \/ ~t.ok \/ FloatLtZero(c.val) \/ FloatLtZero(t.val)
        THEN "invalid_cost_tax"
        ELSE ""

\* what step 1 answers: the first failing check, "" when every check passes
Step1Error(date_purchased, quantity, cost_per_unit, tax) ==
    LET q == IntParse(quantity)
        c == FloatParse(cost_per_unit)
        t == FloatParse(tax)
    IN  IF ~DateMatches(date_purchased) THEN "invalid_date"
        ELSE IF ~q.ok \/ q.val <= 0 THEN "invalid_quantity"
        ELSE IF ~c.ok \/ ~t.ok \/ FloatLtZero(c.val) \/ FloatLtZero(t.val)
        THEN "invalid_cost_tax"
        ELSE ""

\* the values of the step-1 form's text inputs, as typed
Step1Typed(product_name, date_purchased, quantity, cost_per_unit, tax) ==
    [product_name |-> product_name, date_purchased |-> date_purchased,
     quantity |-> quantity, cost_per_unit |-> cost_per_unit, tax |-> tax]

\* the fields StoreSelectView receives from step 1
Step1Form(product_name, date_purchased, quantity, cost_per_unit, tax) ==
    [product_name |-> product_name,
     date_purchased |-> date_purchased,
     quantity |-> IntStr(IntParse(quantity).val),
     cost_per_unit |-> FloatStr(FloatParse(cost_per_unit).val),
     tax |-> FloatStr(FloatParse(tax).val)]

\* "if self.retail_price.value:" ... float(...) < 0 raises ValueError
RetailInvalid(retail_price) ==
    /\ retail_price # <<>>
    /\ LET r == FloatParse(retail_price) IN ~r.ok \/ FloatLtZero(r.val)

RetailPriceVal(retail_price) ==
    IF retail_price = <<>> THEN <<>> ELSE FloatStr(FloatParse(retail_price).val)

\* NoRow with the test for a missing row position left out
NoRowNeverChecked(new_row) == FALSE

\* "if not new_row": None and 0 both count as no row
NoRow(new_row) == new_row = 0

\* the data dict of AddProductStep2Modal.on_submit
AddData(f, product_uuid, links, retail_price_val) ==
    <<Item("uuid", product_uuid),
      Item("product_name", f.product_name),
      Item("date_purchased", f.date_purchased),
      Item("quantity", f.quantity),
      Item("store", f.store),
      Item("links", links),
      Item("cost_per_unit", f.cost_per_unit),
      Item("tax", f.tax),
      Item("retail_price", retail_price_val)>>

\* where a run's backing-store calls may fail
AddFailures == {"none", "create_raise", "create_none", "write", "color", "formula"}

\* The commit of AddProductStep2Modal.on_submit, from call_apps_script on:
\* the spreadsheet, the white cells, the calls and the message it ends with.
\* fail names the call that fails in this run.
AddCommit(book, wh, f, product_uuid, links, retail_price_val, fail) ==
    LET name == UserSheetName
        new_row == IF fail = "create_none" THEN 0 ELSE NewRowPosition(book[name])
        book1 == IF fail = "create_none" THEN book
                 ELSE [book EXCEPT ![name] = InsertRowAboveTotal(book[name])]
        create == Call("call_apps_script", name, new_row, <<>>,
                       IF fail = "create_none" THEN "none" ELSE "ok")
        w == WriteDataToRow(book1, name, new_row,
                            AddData(f, product_uuid, links, retail_price_val),
                            COLUMN_MAPPING, fail # "write")
        write == Call("write_data_to_row", name, new_row,
                      UpdateData(name, new_row,
                                 AddData(f, product_uuid, links, retail_price_val),
                                 COLUMN_MAPPING),
                      w.result)
        color == Call("set_cell_text_color", name, new_row, <<>>,
                      IF fail = "color" THEN "raise" ELSE "True")
        wh1 == wh \cup {<<name, "A", new_row>>}
        formula == HyperlinkFormula(DashboardUrl(product_uuid), f.product_name)
        wf == WriteFormula(w.book, name, "B", new_row, formula, fail # "formula")
        fcall == Call("write_formula", name, new_row,
                      <<[sheet |-> name, col |-> "B", row |-> new_row,
                         value |-> formula]>>, wf.result)
    IN  IF fail = "create_raise"
        THEN [book |-> book, white |-> wh,
              calls |-> <<Call("call_apps_script", name, 0, <<>>, "raise")>>,
              msg |-> ErrorMsg("error", "Failed to call Apps Script")]
        ELSE IF NoRow(new_row)
        THEN [book |-> book1, white |-> wh, calls |-> <<create>>,
              msg |-> Msg("row_creation_failed")]
        ELSE IF w.result = "raise"
        THEN [book |-> book1, white |-> wh, calls |-> <<create, write>>,
              msg |-> ErrorMsg("error", "Failed to write data to sheet")]
        ELSE IF fail = "color"
        THEN [book |-> w.book, white |-> wh, calls |-> <<create, write, color>>,
              msg |-> ErrorMsg("error", "Failed to set cell text color")]
        ELSE IF wf.result = "raise"
        THEN [book |-> w.book, white |-> wh1,
              calls |-> <<create, write, color, fcall>>,
              msg |-> ErrorMsg("error", "Failed to write formula")]
        ELSE [book |-> wf.book, white |-> wh1,
              calls |-> <<create, write, color, fcall>>,
              msg |-> Msg("success")]

\* what RecordSaleModal answers: the first failing check, "" when all pass
SaleError(sold_date, quantity_sold, price_per_unit, shipping_cost) ==
    LET q == IntParse(quantity_sold)
        p == FloatParse(price_per_unit)
        h == FloatParse(shipping_cost)
    IN  IF ~DateMatches(sold_date) THEN "sale_invalid_date"
        ELSE IF ~q.ok \/ q.val <= 0 THEN "sale_invalid_quantity"
        ELSE IF ~p.ok \/ ~h.ok \/ FloatLtZero(p.val) \/ FloatLtZero(h.val)
        THEN "sale_invalid_price_shipping"
        ELSE ""

\* the data dict of RecordSaleModal.on_submit
SaleData(product_name, sold_date, quantity_sold, price_per_unit, shipping_cost) ==
    <<Item("product_name", product_name),
      Item("sold_date", sold_date),
      Item("quantity_sold", IntStr(IntParse(quantity_sold).val)),
      Item("price_per_unit", FloatStr(FloatParse(price_per_unit).val)),
      Item("shipping_cost", FloatStr(FloatParse(shipping_cost).val))>>

SaleFailures == {"none", "create_raise", "create_none", "write"}

\* the commit of RecordSaleModal.on_submit, from call_apps_script on
SaleCommit(book, data, fail) ==
    LET name == SALES_SHEET_NAME
        new_row == IF fail = "create_none" THEN 0 ELSE NewRowPosition(book[name])
        book1 == IF fail = "create_none" THEN book
                 ELSE [book EXCEPT ![name] = InsertRowAboveTotal(book[name])]
        create == Call("call_apps_script", name, new_row, <<>>,
                       IF fail = "create_none" THEN "none" ELSE "ok")
        w == WriteDataToRow(book1, name, new_row, data, SALES_COLUMN_MAPPING,
                            fail # "write")
        write == Call("write_data_to_row", name, new_row,
                      UpdateData(name, new_row, data, SALES_COLUMN_MAPPING),
                      w.result)
    IN  IF fail = "create_raise"
        THEN [book |-> book,
              calls |-> <<Call("call_apps_script", name, 0, <<>>, "raise")>>,
              msg |-> ErrorMsg("error", "Failed to call Apps Script")]
        ELSE IF NoRow(new_row)
        THEN [book |-> book1, calls |-> <<create>>,
              msg |-> Msg("sale_row_creation_failed")]
        ELSE IF w.result = "raise"
        THEN [book |-> book1, calls |-> <<create, write>>,
              msg |-> ErrorMsg("error", "Failed to write data to sheet")]
        ELSE [book |-> w.book, calls |-> <<create, write>>, msg |-> Msg("success")]

-----------------------------------------------------------------------------
(* Inputs a user can type, and the spreadsheets a run can start from *)

T_Widget == <<"W", "i", "d", "g", "e", "t">>
T_Gadget == <<" ", "G", "a", "d", "g", "e", "t", " ">>
T_Date == <<"0", "1", "/", "1", "5", "/", "2", "0", "2", "5">>
T_Date2 == <<"0", "2", "/", "0", "3", "/", "2", "0", "2", "5">>
T_ShortDate == <<"1", "/", "5", "/", "2", "0", "2", "5">>

NameInputs == {T_Widget, T_Gadget}
DateInputs == {T_Date, T_ShortDate, <<"0", "1", "-", "1", "5", "-", "2", "0", "2", "5">>}
QuantityInputs ==
    {<<"5">>, <<" ", "3">>, <<"0">>, <<"-", "1">>, <<"2", ".", "0">>, <<"x">>}
CostInputs == {<<"1", "0", ".", "0", "0">>, <<"n", "a", "n">>, <<"-", "1">>, <<"$", "5">>}
TaxInputs == {<<"2", ".", "5">>, <<"-", "0", ".", "5">>, <<"x">>}
RetailInputs == {<<>>, <<"5", "0">>, <<"-", "5">>, <<"a", "b", "c">>, <<"n", "a", "n">>}
LinksInputs == {<<>>, <<"https://example.com/product">>}
UuidValues == {<<"uuid-1">>, <<"uuid-2">>}

\* config.STORE_OPTIONS
STORE_OPTIONS ==
    {<<"Amazon">>, <<"Walmart">>, <<"Target">>, <<"Best Buy">>, <<"Costco">>,
     <<"Pokemon Store">>, <<"Other">>}

\* a row holding the given cells (column letter -> text), the others empty
MkRow(cells) ==
    [i \in 1..NCols |->
        IF ColLetters[i] \in DOMAIN cells THEN cells[ColLetters[i]] ELSE <<>>]

HeaderRow == MkRow([B |-> <<"Product">>])
TotalRow == MkRow([B |-> <<"T", "o", "t", "a", "l">>, L |-> <<"$", "9", "9">>])
Headers == [i \in 1..(StartRow - 1) |-> HeaderRow]

\* a sheet laid out as the readers expect: headers, data rows, the totals row
Grid(dataRows) == Headers \o dataRows \o <<TotalRow>>

StockRow1 ==
    MkRow([A |-> <<"uuid-0">>, B |-> T_Widget, C |-> T_Date, D |-> <<"4">>,
           E |-> <<"3">>, L |-> <<"$", "1", "0", ".", "0", "0">>,
           M |-> <<"$", "1", "0", ".", "0", "0">>])
StockRow2 ==
    MkRow([B |-> T_Gadget, C |-> T_ShortDate, D |-> <<"2">>, E |-> <<"2">>,
           L |-> <<"7">>, M |-> <<"4", ".", "5", "0">>])
StockRows == <<StockRow1, StockRow2>>

\* most data rows a starting inventory sheet holds
MaxStock == 1

Stock(n) == [i \in 1..n |-> StockRows[((i - 1) % Len(StockRows)) + 1]]

FlowBooks ==
    {[s \in SheetNames |-> IF s = UserSheetName THEN Grid(Stock(n)) ELSE Grid(<<>>)]
     : n \in 0..MaxStock}

NoForm == <<>>

-----------------------------------------------------------------------------
(* The guided flows as a state machine: one action per command or handler *)

InitFlow ==
    /\ pc = "idle"
    /\ registered \in BOOLEAN
    /\ form = NoForm
    /\ sheet \in FlowBooks
    /\ white = {}
    /\ calls = <<>>
    /\ msgs = <<>>
    /\ ret = <<>>

\* bot.py add(): the registration check, then the step-1 form
CmdAdd ==
    /\ pc = "idle"
    /\ IF ~registered
       THEN /\ msgs' = Append(msgs, Msg("not_registered"))
            /\ pc' = "done"
       ELSE /\ msgs' = msgs
            /\ pc' = "step1"
    /\ UNCHANGED <<registered, form, sheet, white, calls, ret>>

\* AddProductStep1Modal.on_submit
Step1Submit ==
    \E product_name \in NameInputs, date_purchased \in DateInputs,
       quantity \in QuantityInputs, cost_per_unit \in CostInputs,
       tax \in TaxInputs :
        /\ pc = "step1"
        /\ LET err == Step1Error(date_purchased, quantity, cost_per_unit, tax)
           IN  IF err # ""
               THEN /\ msgs' = Append(msgs, Msg(err))
                    /\ form' = [step1 |-> Step1Typed(product_name, date_purchased,
                                                     quantity, cost_per_unit, tax)]
                    /\ pc' = "done"
               ELSE /\ msgs' = Append(msgs, Msg("select_store"))
                    /\ form' = [step1 |-> Step1Typed(product_name, date_purchased,
                                                     quantity, cost_per_unit, tax)]
                               @@ Step1Form(product_name, date_purchased, quantity,
                                            cost_per_unit, tax)
                    /\ pc' = "store"
        /\ UNCHANGED <<registered, sheet, white, calls, ret>>

\* StoreSelectView.store_select
StoreSelect ==
    \E selected_store \in STORE_OPTIONS :
        /\ pc = "store"
        /\ form' = [store |-> selected_store] @@ form
        /\ pc' = "step3"
        /\ UNCHANGED <<registered, sheet, white, calls, msgs, ret>>

\* AddProductStep2Modal.on_submit
Step3Submit ==
    \E links \in LinksInputs, retail_price \in RetailInputs,
       product_uuid \in UuidValues, fail \in AddFailures :
        /\ pc = "step3"
        /\ pc' = "done"
        /\ IF ~registered
           THEN /\ msgs' = Append(msgs, Msg("not_registered"))
                /\ UNCHANGED <<sheet, white, calls>>
           ELSE IF RetailInvalid(retail_price)
           THEN /\ msgs' = Append(msgs, Msg("invalid_retail"))
                /\ UNCHANGED <<sheet, white, calls>>
           ELSE LET c == AddCommit(sheet, white, form, product_uuid, links,
                                   RetailPriceVal(retail_price), fail)
                IN  /\ sheet' = c.book
                    /\ white' = c.white
                    /\ calls' = calls \o c.calls
                    /\ msgs' = Append(msgs, c.msg)
        /\ form' = [links |-> links, retail_price |-> retail_price,
                    product_uuid |-> product_uuid] @@ form
        /\ UNCHANGED <<registered, ret>>

\* bot.py sales(): registration check, read_inventory, the product dropdown
CmdSales ==
    \E readOk \in BOOLEAN :
        /\ pc = "idle"
        /\ IF ~registered
           THEN /\ msgs' = Append(msgs, Msg("not_registered"))
                /\ UNCHANGED <<calls, form>>
                /\ pc' = "done"
           ELSE IF ~readOk
           THEN /\ calls' = Append(calls, Call("read_inventory", UserSheetName,
                                               0, <<>>, "raise"))
                /\ msgs' = Append(msgs, ErrorMsg("error", "Failed to read inventory"))
                /\ form' = form
                /\ pc' = "done"
           ELSE LET items == ReadInventory(sheet[UserSheetName], StartRow)
                IN  /\ calls' = Append(calls, Call("read_inventory", UserSheetName,
                                                   0, <<>>, "ok"))
                    /\ IF items = <<>>
                       THEN /\ msgs' = Append(msgs, Msg("inventory_empty"))
                            /\ form' = form
                            /\ pc' = "done"
                       ELSE /\ msgs' = Append(msgs, Msg("select_product"))
                            /\ form' = [products |-> items]
                            /\ pc' = "sale_select"
        /\ UNCHANGED <<registered, sheet, white, ret>>

\* discord's limit of options in a dropdown: products[:25]
MaxOptions == 25

\* ProductSelectView.product_callback: the chosen option's value, name[:100]
ProductSelect ==
    /\ pc = "sale_select"
    /\ \E i \in 1..Len(form.products) :
        /\ i <= MaxOptions
        /\ form' = [product_name |-> Take(form.products[i].product_name, 100)]
        /\ pc' = "sale_modal"
        /\ UNCHANGED <<registered, sheet, white, calls, msgs, ret>>

\* RecordSaleModal.on_submit
RecordSaleSubmit ==
    \E sold_date \in DateInputs, quantity_sold \in QuantityInputs,
       price_per_unit \in CostInputs, shipping_cost \in TaxInputs,
       fail \in SaleFailures :
        /\ pc = "sale_modal"
        /\ pc' = "done"
        /\ LET err == SaleError(sold_date, quantity_sold, price_per_unit,
                                shipping_cost)
           IN  IF err # ""
               THEN /\ msgs' = Append(msgs, Msg(err))
                    /\ UNCHANGED <<sheet, calls>>
               ELSE IF ~registered
               THEN /\ msgs' = Append(msgs, Msg("not_registered"))
                    /\ UNCHANGED <<sheet, calls>>
               ELSE LET c == SaleCommit(sheet,
                                        SaleData(form.product_name, sold_date,
                                                 quantity_sold, price_per_unit,
                                                 shipping_cost),
                                        fail)
                    IN  /\ sheet' = c.book
                        /\ calls' = calls \o c.calls
                        /\ msgs' = Append(msgs, c.msg)
        /\ form' = [sold_date |-> sold_date, quantity_sold |-> quantity_sold,
                    price_per_unit |-> price_per_unit,
                    shipping_cost |-> shipping_cost] @@ form
        /\ UNCHANGED <<registered, white, ret>>

NextFlow ==
    \/ CmdAdd
    \/ Step1Submit
    \/ StoreSelect
    \/ Step3Submit
    \/ CmdSales
    \/ ProductSelect
    \/ RecordSaleSubmit

SpecFlow == InitFlow /\ [][NextFlow]_vars

-----------------------------------------------------------------------------
(* Claims about the guided flows, checked under SpecFlow *)

AddRun == "step1" \in DOMAIN form
Step3Ran == "product_uuid" \in DOMAIN form
LastMsg == msgs[Len(msgs)]

\* a step-1 base field that fails its validation
BaseFieldInvalid(t) ==
    \/ ~DateMatches(t.date_purchased)
    \/ ~IntParse(t.quantity).ok
    \/ IntParse(t.quantity).val <= 0
    \/ ~FloatParse(t.cost_per_unit).ok
    \/ FloatLtZero(FloatParse(t.cost_per_unit).val)
    \/ ~FloatParse(t.tax).ok
    \/ FloatLtZero(FloatParse(t.tax).val)

\* C1: in the add-product flow, when a step-1 base field (date, quantity, cost
\* or tax) fails validation the flow has ended, no call_apps_script call and no
\* other backing-store call was issued, and the spreadsheet and its formats
\* are as they were.
C1_Step1AbortIssuesNoCall ==
    (AddRun /\ BaseFieldInvalid(form.step1)) =>
        /\ pc = "done"
        /\ calls = <<>>
        /\ white = {}
        /\ sheet \in FlowBooks

\* an add run that ended at step 1 on a quantity that is no integer > 0
C1_Witness ==
    /\ AddRun
    /\ pc = "done"
    /\ DateMatches(form.step1.date_purchased)
    /\ ~(IntParse(form.step1.quantity).ok /\ IntParse(form.step1.quantity).val > 0)
    /\ LastMsg.kind = "invalid_quantity"
    /\ calls = <<>>

\* the terminal state "committed": the new row holds every collected field, its
\* id cell is white and its name cell holds the hyperlink formula
Committed ==
    \E r \in 1..Len(sheet[UserSheetName]) :
        LET row == sheet[UserSheetName][r]
        IN  /\ row[ColIndex("A")] = form.product_uuid
            /\ row[ColIndex("B")] =
                   HyperlinkFormula(DashboardUrl(form.product_uuid), form.product_name)
            /\ row[ColIndex("C")] = form.date_purchased
            /\ row[ColIndex("D")] = form.quantity
            /\ row[ColIndex("H")] = form.store
            /\ row[ColIndex("J")] = form.links
            /\ row[ColIndex("L")] = form.cost_per_unit
            /\ row[ColIndex("M")] = form.tax
            /\ row[ColIndex("O")] = RetailPriceVal(form.retail_price)
            /\ <<UserSheetName, "A", r>> \in white

\* the terminal state "aborted before commit": nothing in the store changed
AbortedBeforeCommit == sheet \in FlowBooks /\ white = {}

\* C2: every terminating run of the add-product flow, runs with a failing
\* backing-store call included, ends committed or aborted-before-commit, never
\* with a row created whose fields or finalize step are missing.
C2_CommittedOrAborted ==
    (AddRun /\ pc = "done") => (AbortedBeforeCommit \/ (Step3Ran /\ Committed))

RowInsertionFailed(c) ==
    c.op = "call_apps_script" /\ c.result \in {"raise", "none"}

-----------------------------------------------------------------------------
(* The Record Reader on its own: one read of a sheet an operator has edited *)

T_TRUE == <<"T", "R", "U", "E">>

\* rows an operator may have left in the data range (columns A..T; read_sales
\* reads the columns B..H of the same rows)
ReadRowKinds ==
    {MkRow([A |-> <<"uuid-0">>, B |-> T_Widget, C |-> T_Date, D |-> <<"4">>,
            E |-> <<"3">>, F |-> <<"$", "5", ".", "0", "0">>, H |-> <<"1", ".", "5">>,
            L |-> <<"$", "1", "0", ".", "0", "0">>, M |-> <<"$", "1", "0", ".", "0", "0">>,
            T |-> <<"F", "A", "L", "S", "E">>]),
     MkRow([B |-> T_Gadget, C |-> T_Date2, D |-> <<"0">>, E |-> <<"x">>,
            F |-> <<"x">>, L |-> <<"7">>, M |-> <<"4", ".", "5">>,
            T |-> <<" ", "T", "R", "U", "E">>]),
     MkRow([A |-> <<"uuid-3">>, B |-> <<"S", "o", "l", "d">>, C |-> T_Date,
            D |-> <<"2">>, E |-> <<"0">>, T |-> T_TRUE]),
     MkRow([B |-> <<"O", "l", "d">>, D |-> <<"1">>, T |-> <<"y", "e", "s">>]),
     MkRow([A |-> <<"uuid-4">>, B |-> <<" ", " ">>, C |-> T_Date2, D |-> <<"3">>,
            E |-> <<"3">>, L |-> <<"5">>]),
     MkRow([A |-> <<"uuid-5">>, C |-> T_Date, D |-> <<"6">>, H |-> <<"2">>,
            T |-> T_TRUE]),
     BlankRow}

\* most rows between the headers and the totals row
MaxReadRows == 3

RECURSIVE SeqsUpTo(_, _)
SeqsUpTo(S, n) ==
    IF n = 0 THEN {<<>>}
    ELSE LET shorter == SeqsUpTo(S, n - 1)
         IN  shorter \cup {Append(q, x) : q \in {t \in shorter : Len(t) = n - 1}, x \in S}

\* headers, the data rows, the totals row, and the unused grid row below it
ReaderGrids == {Grid(rows) \o <<BlankRow>> : rows \in SeqsUpTo(ReadRowKinds, MaxReadRows)}

InitReader ==
    /\ pc = "read_idle"
    /\ registered = TRUE
    /\ form = NoForm
    /\ \E g \in ReaderGrids : sheet = [s \in SheetNames |-> g]
    /\ white = {}
    /\ calls = <<>>
    /\ msgs = <<>>
    /\ ret = <<>>

\* read_inventory(spreadsheet_id, sheet_name, start_row=8); a failing
\* values().get() is re-raised and nothing is returned
DoReadInventory ==
    /\ pc = "read_idle"
    /\ pc' = "read_done"
    /\ \E apiOk \in BOOLEAN :
        /\ ret' = IF apiOk
                  THEN [op |-> "read_inventory", result |-> "ok",
                        items |-> ReadInventory(sheet[UserSheetName], StartRow)]
                  ELSE [op |-> "read_inventory", result |-> "raise", items |-> <<>>]
        /\ calls' = Append(calls, Call("read_inventory", UserSheetName, 0, <<>>,
                                       IF apiOk THEN "ok" ELSE "raise"))
    /\ UNCHANGED <<registered, form, sheet, white, msgs>>

\* read_sales(spreadsheet_id, 'Sales', start_row=8)
DoReadSales ==
    /\ pc = "read_idle"
    /\ pc' = "read_done"
    /\ \E apiOk \in BOOLEAN :
        /\ ret' = IF apiOk
                  THEN [op |-> "read_sales", result |-> "ok",
                        items |-> ReadSales(sheet[SALES_SHEET_NAME], StartRow)]
                  ELSE [op |-> "read_sales", result |-> "raise", items |-> <<>>]
        /\ calls' = Append(calls, Call("read_sales", SALES_SHEET_NAME, 0, <<>>,
                                       IF apiOk THEN "ok" ELSE "raise"))
    /\ UNCHANGED <<registered, form, sheet, white, msgs>>

NextReader == DoReadInventory \/ DoReadSales

SpecReader == InitReader /\ [][NextReader]_vars

-----------------------------------------------------------------------------
(* Claims about the Record Reader, checked under SpecReader *)

ReadDone(op) == pc = "read_done" /\ ret.op = op /\ ret.result = "ok"

\* the grid a read was made of, and the rows of its fetched range
GridOf(op) == IF op = "read_sales" THEN sheet[SALES_SHEET_NAME] ELSE sheet[UserSheetName]
TotalsRow(g) == CHOOSE r \in 0..Len(g) :
                    /\ r > 0 => g[r][ColIndex("B")] # <<>>
                    /\ \A q \in (r + 1)..Len(g) : g[q][ColIndex("B")] = <<>>
FetchedRows(g) == StartRow..(TotalsRow(g) - 1)

Cell(g, r, c) == g[r][ColIndex(c)]
NonBlank(text) == \E i \in 1..Len(text) : text[i] \notin WhiteSpace
RowsOf(items) == {items[i].row_number : i \in 1..Len(items)}
OnePerRow(items) == \A i, j \in 1..Len(items) : i < j => items[i].row_number < items[j].row_number

SoldMark(text) == Upper(text) \in {T_TRUE, <<"Y", "E", "S">>, <<"1">>}

-----------------------------------------------------------------------------
(* The Record Writer on its own: one write_data_to_row call *)

\* field names a caller may put in the dict: mapped for both record kinds,
\* for the inventory only, for sales only, and for neither
WriterFields == {"product_name", "quantity", "sold_date", "notes"}

\* values of a dict entry: a text, the empty text, None
WriterValues(field) == {Item(field, <<"x">>), Item(field, <<>>), NoneItem(field)}

\* most entries of the dict
MaxFields == 3

\* item sequences of at most n entries; a dict is one whose keys are distinct
RECURSIVE Dicts(_)
Dicts(n) ==
    IF n = 0 THEN {<<>>}
    ELSE LET shorter == Dicts(n - 1)
         IN  shorter \cup
             UNION {{Append(q, v) : v \in WriterValues(f)} :
                    q \in {t \in shorter : Len(t) = n - 1},
                    f \in WriterFields}

DistinctKeys(data) == \A i, j \in 1..Len(data) : i # j => data[i].field # data[j].field

WriterDicts == {data \in Dicts(MaxFields) : DistinctKeys(data)}

\* the sheet and the mapping the callers pair
WriterTargets ==
    {[sheet_name |-> UserSheetName, mapping |-> COLUMN_MAPPING],
     [sheet_name |-> SALES_SHEET_NAME, mapping |-> SALES_COLUMN_MAPPING]}

WriterBook == [s \in SheetNames |-> Grid(Stock(2))]

InitWriter ==
    /\ pc = "write_idle"
    /\ registered = TRUE
    /\ form = NoForm
    /\ sheet = WriterBook
    /\ white = {}
    /\ calls = <<>>
    /\ msgs = <<>>
    /\ ret = <<>>

\* write_data_to_row(spreadsheet_id, sheet_name, row_number, data, column_mapping)
DoWriteDataToRow ==
    /\ pc = "write_idle"
    /\ pc' = "write_done"
    /\ \E data \in WriterDicts, t \in WriterTargets,
          row_number \in {StartRow, StartRow + 1}, apiOk \in BOOLEAN :
        LET w == WriteDataToRow(sheet, t.sheet_name, row_number, data, t.mapping, apiOk)
        IN  /\ ret' = [op |-> "write_data_to_row", data |-> data,
                       sheet_name |-> t.sheet_name, mapping |-> t.mapping,
                       row_number |-> row_number, apiOk |-> apiOk,
                       result |-> w.result]
            /\ calls' = calls \o
                 [i \in 1..Len(w.batches) |->
                    Call("batchUpdate", t.sheet_name, row_number, w.batches[i],
                         IF apiOk THEN "ok" ELSE "raise")]
            /\ sheet' = w.book
    /\ UNCHANGED <<registered, form, white, msgs>>

NextWriter == DoWriteDataToRow

SpecWriter == InitWriter /\ [][NextWriter]_vars

-----------------------------------------------------------------------------
(* Claims about the Record Writer, checked under SpecWriter *)

WriteDone == pc = "write_done" /\ ret.op = "write_data_to_row"

\* the entries of the dict that name a mapped field and hold a value
Mapped(d) == d.field \in DOMAIN ret.mapping
Writable(data) == {i \in 1..Len(data) : Mapped(data[i]) /\ ~data[i].null}

\* C6: write_data_to_row called with a dict in which every key is unmapped or
\* every value is None (or any mix leaving nothing to write) returns False,
\* issues no batchUpdate and leaves the spreadsheet as it was.
C6_NothingToWriteIsNoOp ==
    (WriteDone /\ (\/ \A i \in 1..Len(ret.data) : ~Mapped(ret.data[i])
                   \/ \A i \in 1..Len(ret.data) : ret.data[i].null))
        => /\ ret.result = "False"
           /\ calls = <<>>
           /\ sheet = WriterBook

\* a call whose dict holds two unmapped keys, both with a text
C6_Witness ==
    /\ WriteDone
    /\ ret.result = "False"
    /\ Len(ret.data) = 2
    /\ \A i \in 1..2 : ~Mapped(ret.data[i]) /\ ret.data[i].text = <<"x">>

\* C7: whenever write_data_to_row has something to write it emits one batch
\* holding exactly one cell update per entry whose name is mapped and whose
\* value is not None, addressed to column mapping[name] of the given row of
\* the given sheet and carrying the entry's value; after an accepted batch no
\* other cell of the spreadsheet differs from before; unmapped names never
\* make the call raise.
C7_BatchIsExactlyTheMappedEntries ==
    WriteDone =>
        LET keep == Writable(ret.data)
        IN  /\ (keep = {}) <=> (calls = <<>>)
            /\ keep # {} =>
                /\ Len(calls) = 1
                /\ Len(calls[1].cells) = Cardinality(keep)
                /\ {calls[1].cells[k] : k \in 1..Len(calls[1].cells)} =
                     {[sheet |-> ret.sheet_name, col |-> ret.mapping[ret.data[i].field],
                       row |-> ret.row_number, value |-> ret.data[i].text] : i \in keep}
            /\ ret.result = "raise" => ~ret.apiOk
            /\ ret.result # "True" => sheet = WriterBook
            /\ ret.result = "True" =>
                \A s \in SheetNames : \A r \in 1..Len(WriterBook[s]) : \A c \in 1..NCols :
                    IF \E i \in keep : /\ s = ret.sheet_name /\ r = ret.row_number
                                       /\ c = ColIndex(ret.mapping[ret.data[i].field])
                    THEN \E i \in keep : /\ c = ColIndex(ret.mapping[ret.data[i].field])
                                         /\ sheet[s][r][c] = ret.data[i].text
                    ELSE sheet[s][r][c] = WriterBook[s][r][c]

\* an accepted write of a dict holding a mapped text, an unmapped text and a
\* mapped None
C7_Witness ==
    /\ WriteDone
    /\ ret.result = "True"
    /\ Len(ret.data) = 3
    /\ Cardinality(Writable(ret.data)) = 1
    /\ \E i \in 1..3 : ~Mapped(ret.data[i]) /\ ~ret.data[i].null
    /\ \E i \in 1..3 : Mapped(ret.data[i]) /\ ret.data[i].null

-----------------------------------------------------------------------------
(* The edit flows: /edit (commands/edit.py) and /edit-sale (commands/edit_sales.py) *)

\* EditInventoryModal.__init__: the text each input is pre-filled with
EditDefaults(item) ==
    LET tax_total == FloatTimesInt(item.tax_per_unit, item.qty_available)
    IN  [product_name |-> item.product_name,
         date_purchased |-> item.date_purchased,
         quantity |-> IntStr(item.qty_available),
         cost_per_unit |-> FloatStr(item.cost_per_unit),
         tax |-> IF FloatGtZero(tax_total) THEN FloatStr(tax_total) ELSE <<>>]

\* EditSaleModal.__init__
EditSaleDefaults(item) ==
    [product_name |-> item.product_name,
     sold_date |-> item.sold_date,
     quantity_sold |-> IntStr(item.quantity_sold),
     price_per_unit |-> FloatStr(item.price_per_unit),
     shipping_cost |-> FloatStr(item.shipping_cost)]

\* "if quantity_val < 0" of EditInventoryModal.on_submit
EditQuantityBad(quantity_val) == quantity_val < 0

\* "if quantity_val <= 0" of EditSaleModal.on_submit
EditSaleQuantityBad(quantity_val) == quantity_val <= 0

\* "if self.product_name.value and self.product_name.value != self.item['product_name']"
NameChanged(value, item) == value # <<>> /\ value # item.product_name

\* one entry of the data dict for a text input that was filled in
Entry(field, value, text) == IF value = <<>> THEN <<>> ELSE <<Item(field, text)>>

\* EditInventoryModal.on_submit from "data = {}" to "if not data": the message
\* of the first failing check ("" when all pass) and the data dict built
EditData(item, typed) ==
    LET q == IntParse(typed.quantity)
        c == FloatParse(typed.cost_per_unit)
        t == FloatParse(typed.tax)
    IN  IF typed.date_purchased # <<>> /\ ~DateMatches(typed.date_purchased)
        THEN [err |-> "edit_invalid_date", data |-> <<>>]
        ELSE IF typed.quantity # <<>> /\ (~q.ok \/ EditQuantityBad(q.val))
        THEN [err |-> "edit_invalid_quantity", data |-> <<>>]
        ELSE IF typed.cost_per_unit # <<>> /\ (~c.ok \/ FloatLtZero(c.val))
        THEN [err |-> "edit_invalid_cost", data |-> <<>>]
        ELSE IF typed.tax # <<>> /\ (~t.ok \/ FloatLtZero(t.val))
        THEN [err |-> "edit_invalid_tax", data |-> <<>>]
        ELSE [err |-> "",
              data |-> (IF NameChanged(typed.product_name, item)
                        THEN <<Item("product_name", typed.product_name)>> ELSE <<>>)
                       \o Entry("date_purchased", typed.date_purchased,
                                typed.date_purchased)
                       \o Entry("quantity", typed.quantity, IntStr(q.val))
                       \o Entry("cost_per_unit", typed.cost_per_unit, FloatStr(c.val))
                       \o Entry("tax", typed.tax, FloatStr(t.val))]

\* EditSaleModal.on_submit from "data = {}" to "if not data"
EditSaleData(item, typed) ==
    LET q == IntParse(typed.quantity_sold)
        p == FloatParse(typed.price_per_unit)
        h == FloatParse(typed.shipping_cost)
    IN  IF typed.sold_date # <<>> /\ ~DateMatches(typed.sold_date)
        THEN [err |-> "edit_invalid_date", data |-> <<>>]
        ELSE IF typed.quantity_sold # <<>> /\ (~q.ok \/ EditSaleQuantityBad(q.val))
        THEN [err |-> "edit_invalid_quantity", data |-> <<>>]
        ELSE IF typed.price_per_unit # <<>> /\ (~p.ok \/ FloatLtZero(p.val))
        THEN [err |-> "edit_invalid_price", data |-> <<>>]
        ELSE IF typed.shipping_cost # <<>> /\ (~h.ok \/ FloatLtZero(h.val))
        THEN [err |-> "edit_invalid_shipping", data |-> <<>>]
        ELSE [err |-> "",
              data |-> (IF NameChanged(typed.product_name, item)
                        THEN <<Item("product_name", typed.product_name)>> ELSE <<>>)
                       \o Entry("sold_date", typed.sold_date, typed.sold_date)
                       \o Entry("quantity_sold", typed.quantity_sold, IntStr(q.val))
                       \o Entry("price_per_unit", typed.price_per_unit, FloatStr(p.val))
                       \o Entry("shipping_cost", typed.shipping_cost, FloatStr(h.val))]

\* the rest of either on_submit: "No changes were made." for an empty dict,
\* else one write_data_to_row at the item's row_number, whose return value is
\* not looked at; its exception becomes the error message
EditCommit(book, sheet_name, row_number, e, mapping, apiOk) ==
    LET w == WriteDataToRow(book, sheet_name, row_number, e.data, mapping, apiOk)
    IN  IF e.err # ""
        THEN [book |-> book, calls |-> <<>>, msg |-> Msg(e.err)]
        ELSE IF e.data = <<>>
        THEN [book |-> book, calls |-> <<>>, msg |-> Msg("no_changes")]
        ELSE [book |-> w.book,
              calls |-> <<Call("write_data_to_row", sheet_name, row_number,
                               UpdateData(sheet_name, row_number, e.data, mapping),
                               w.result)>>,
              msg |-> IF w.result = "raise"
                      THEN ErrorMsg("error", "Failed to write data to sheet")
                      ELSE Msg("edit_success")]

\* rows of a Sales sheet (columns B, C, D, F, H)
SoldRow1 ==
    MkRow([B |-> T_Widget, C |-> T_Date, D |-> <<"2">>,
           F |-> <<"$", "5", "0", ".", "0", "0">>, H |-> <<"5">>])
SoldRow2 ==
    MkRow([B |-> T_Gadget, C |-> T_ShortDate, D |-> <<"0">>,
           F |-> <<"7", ".", "5">>])
SoldRows == <<SoldRow1, SoldRow2>>
Sold(n) == [i \in 1..n |-> SoldRows[((i - 1) % Len(SoldRows)) + 1]]

\* most data rows of either sheet when an edit starts
MaxEditRows == 2

EditBooks ==
    {[s \in SheetNames |-> IF s = UserSheetName THEN Grid(Stock(n)) ELSE Grid(Sold(n))]
     : n \in 0..MaxEditRows}

\* what a user may leave in a text input of an edit form: nothing, the
\* pre-filled text, or one of the texts typed over it
EditNameInputs(default) == {<<>>, default, <<"N", "e", "w">>}
EditDateInputs(default) == {<<>>, default, T_Date2, T_ShortDate}
EditQuantityInputs(default) ==
    {<<>>, default, <<"0">>, <<"-", "1">>, <<" ", "7">>, <<"x">>}
EditMoneyInputs(default) == {<<>>, default, <<"n", "a", "n">>, <<"-", "1">>}
EditTaxInputs(default) == {<<>>, default, <<"$", "5">>}

InitEdit ==
    /\ pc = "idle"
    /\ registered \in BOOLEAN
    /\ form = NoForm
    /\ sheet \in EditBooks
    /\ white = {}
    /\ calls = <<>>
    /\ msgs = <<>>
    /\ ret = <<>>

\* bot.py edit(): registration check, read_inventory, the product dropdown
CmdEdit ==
    \E readOk \in BOOLEAN :
        /\ pc = "idle"
        /\ IF ~registered
           THEN /\ msgs' = Append(msgs, Msg("not_registered"))
                /\ UNCHANGED <<calls, form>>
                /\ pc' = "done"
           ELSE IF ~readOk
           THEN /\ calls' = Append(calls, Call("read_inventory", UserSheetName,
                                               0, <<>>, "raise"))
                /\ msgs' = Append(msgs, ErrorMsg("error", "Failed to read inventory"))
                /\ form' = form
                /\ pc' = "done"
           ELSE LET items == ReadInventory(sheet[UserSheetName], StartRow)
                IN  /\ calls' = Append(calls, Call("read_inventory", UserSheetName,
                                                   0, <<>>, "ok"))
                    /\ IF items = <<>>
                       THEN /\ msgs' = Append(msgs, Msg("inventory_empty"))
                            /\ form' = form
                            /\ pc' = "done"
                       ELSE /\ msgs' = Append(msgs, Msg("select_product"))
                            /\ form' = [products |-> items]
                            /\ pc' = "edit_select"
        /\ UNCHANGED <<registered, sheet, white, ret>>

\* InventorySelectView.product_callback: the modal for products[selected_index]
EditSelect ==
    /\ pc = "edit_select"
    /\ \E i \in 1..Len(form.products) :
        /\ i <= MaxOptions
        /\ form' = [item |-> form.products[i],
                    defaults |-> EditDefaults(form.products[i])]
        /\ pc' = "edit_modal"
        /\ UNCHANGED <<registered, sheet, white, calls, msgs, ret>>

\* EditInventoryModal.on_submit
EditSubmit ==
    /\ pc = "edit_modal"
    /\ pc' = "edit_done"
    /\ \E product_name \in EditNameInputs(form.defaults.product_name),
          date_purchased \in EditDateInputs(form.defaults.date_purchased),
          quantity \in EditQuantityInputs(form.defaults.quantity),
          cost_per_unit \in EditMoneyInputs(form.defaults.cost_per_unit),
          tax \in EditTaxInputs(form.defaults.tax),
          apiOk \in BOOLEAN :
        LET typed == [product_name |-> product_name,
                      date_purchased |-> date_purchased, quantity |-> quantity,
                      cost_per_unit |-> cost_per_unit, tax |-> tax]
            e == EditData(form.item, typed)
            c == EditCommit(sheet, UserSheetName, form.item.row_number, e,
                            COLUMN_MAPPING, apiOk)
        IN  IF ~registered
            THEN /\ msgs' = Append(msgs, Msg("not_registered"))
                 /\ ret' = [op |-> "edit", typed |-> typed, err |-> "not_registered",
                            data |-> <<>>]
                 /\ UNCHANGED <<sheet, calls>>
            ELSE /\ msgs' = Append(msgs, c.msg)
                 /\ ret' = [op |-> "edit", typed |-> typed, err |-> e.err,
                            data |-> e.data]
                 /\ sheet' = c.book
                 /\ calls' = calls \o c.calls
    /\ UNCHANGED <<registered, form, white>>

\* bot.py edit_sale(): registration check, read_sales, the sale dropdown
CmdEditSale ==
    \E readOk \in BOOLEAN :
        /\ pc = "idle"
        /\ IF ~registered
           THEN /\ msgs' = Append(msgs, Msg("not_registered"))
                /\ UNCHANGED <<calls, form>>
                /\ pc' = "done"
           ELSE IF ~readOk
           THEN /\ calls' = Append(calls, Call("read_sales", SALES_SHEET_NAME,
                                               0, <<>>, "raise"))
                /\ msgs' = Append(msgs, ErrorMsg("error", "Failed to read sales"))
                /\ form' = form
                /\ pc' = "done"
           ELSE LET sales == ReadSales(sheet[SALES_SHEET_NAME], StartRow)
                IN  /\ calls' = Append(calls, Call("read_sales", SALES_SHEET_NAME,
                                                   0, <<>>, "ok"))
                    /\ IF sales = <<>>
                       THEN /\ msgs' = Append(msgs, Msg("sales_empty"))
                            /\ form' = form
                            /\ pc' = "done"
                       ELSE /\ msgs' = Append(msgs, Msg("select_sale"))
                            /\ form' = [sales |-> sales]
                            /\ pc' = "esale_select"
        /\ UNCHANGED <<registered, sheet, white, ret>>

\* SaleSelectView.sale_callback: the modal for sales[selected_index]
EditSaleSelect ==
    /\ pc = "esale_select"
    /\ \E i \in 1..Len(form.sales) :
        /\ i <= MaxOptions
        /\ form' = [item |-> form.sales[i],
                    defaults |-> EditSaleDefaults(form.sales[i])]
        /\ pc' = "esale_modal"
        /\ UNCHANGED <<registered, sheet, white, calls, msgs, ret>>

\* EditSaleModal.on_submit
EditSaleSubmit ==
    /\ pc = "esale_modal"
    /\ pc' = "esale_done"
    /\ \E product_name \in EditNameInputs(form.defaults.product_name),
          sold_date \in EditDateInputs(form.defaults.sold_date),
          quantity_sold \in EditQuantityInputs(form.defaults.quantity_sold),
          price_per_unit \in EditMoneyInputs(form.defaults.price_per_unit),
          shipping_cost \in EditTaxInputs(form.defaults.shipping_cost),
          apiOk \in BOOLEAN :
        LET typed == [product_name |-> product_name, sold_date |-> sold_date,
                      quantity_sold |-> quantity_sold,
                      price_per_unit |-> price_per_unit,
                      shipping_cost |-> shipping_cost]
            e == EditSaleData(form.item, typed)
            c == EditCommit(sheet, SALES_SHEET_NAME, form.item.row_number, e,
                            SALES_COLUMN_MAPPING, apiOk)
        IN  IF ~registered
            THEN /\ msgs' = Append(msgs, Msg("not_registered"))
                 /\ ret' = [op |-> "edit_sale", typed |-> typed,
                            err |-> "not_registered", data |-> <<>>]
                 /\ UNCHANGED <<sheet, calls>>
            ELSE /\ msgs' = Append(msgs, c.msg)
                 /\ ret' = [op |-> "edit_sale", typed |-> typed, err |-> e.err,
                            data |-> e.data]
                 /\ sheet' = c.book
                 /\ calls' = calls \o c.calls
    /\ UNCHANGED <<registered, form, white>>

NextEdit ==
    \/ CmdEdit
    \/ EditSelect
    \/ EditSubmit
    \/ CmdEditSale
    \/ EditSaleSelect
    \/ EditSaleSubmit

SpecEdit == InitEdit /\ [][NextEdit]_vars

-----------------------------------------------------------------------------
(* Claims about the edit flows, checked under SpecEdit *)

\* an edit form was submitted by a registered user
EditRan == pc \in {"edit_done", "esale_done"} /\ ret.err # "not_registered"

EditFields(op) ==
    IF op = "edit"
    THEN {"product_name", "date_purchased", "quantity", "cost_per_unit", "tax"}
    ELSE {"product_name", "sold_date", "quantity_sold", "price_per_unit",
          "shipping_cost"}

\* every input of the submitted form is blank or still holds its pre-filled text
FormUntouched ==
    \A f \in EditFields(ret.op) : ret.typed[f] = <<>> \/ ret.typed[f] = form.defaults[f]

WriteCalls == {i \in 1..Len(calls) : calls[i].op = "write_data_to_row"}

\* C8: submitting the inventory or sale edit form with every field blank or
\* equal to its pre-filled value answers "No changes were made." and issues no
\* write_data_to_row call.
C8_UntouchedFormChangesNothing ==
    (EditRan /\ FormUntouched) =>
        /\ LastMsg.kind = "no_changes"
        /\ WriteCalls = {}

\* C9: a field is in the dict an edit flow passes to write_data_to_row only if
\* the submitted text differs from the text the form was pre-filled with from
\* the record read.
C9_OnlyChangedFieldsInUpdate ==
    EditRan =>
        \A i \in 1..Len(ret.data) :
            ret.typed[ret.data[i].field] # form.defaults[ret.data[i].field]

\* what the creation flows (AddProductStep1Modal, RecordSaleModal) answer to a
\* form holding this text in the field and valid texts in the others
CreationAccepts(field, text) ==
    CASE field = "date_purchased" -> Step1Error(text, <<"1">>, <<"1">>, <<"1">>) = ""
      [] field = "quantity" -> Step1Error(T_Date, text, <<"1">>, <<"1">>) = ""
      [] field = "cost_per_unit" -> Step1Error(T_Date, <<"1">>, text, <<"1">>) = ""
      [] field = "tax" -> Step1Error(T_Date, <<"1">>, <<"1">>, text) = ""
      [] field = "sold_date" -> SaleError(text, <<"1">>, <<"1">>, <<"1">>) = ""
      [] field = "quantity_sold" -> SaleError(T_Date, text, <<"1">>, <<"1">>) = ""
      [] field = "price_per_unit" -> SaleError(T_Date, <<"1">>, text, <<"1">>) = ""
      [] field = "shipping_cost" -> SaleError(T_Date, <<"1">>, <<"1">>, text) = ""

\* the validated fields of an edit form in the order the handler checks them,
\* with the message of each one's rejection
CheckedFields(op) ==
    IF op = "edit"
    THEN <<[field |-> "date_purchased", err |-> "edit_invalid_date"],
           [field |-> "quantity", err |-> "edit_invalid_quantity"],
           [field |-> "cost_per_unit", err |-> "edit_invalid_cost"],
           [field |-> "tax", err |-> "edit_invalid_tax"]>>
    ELSE <<[field |-> "sold_date", err |-> "edit_invalid_date"],
           [field |-> "quantity_sold", err |-> "edit_invalid_quantity"],
           [field |-> "price_per_unit", err |-> "edit_invalid_price"],
           [field |-> "shipping_cost", err |-> "edit_invalid_shipping"]>>

\* the edit handler rejected / accepted the k-th checked field: it is accepted
\* when the handler went past it
EditRejected(k) == ret.err = CheckedFields(ret.op)[k].err
EditAccepted(k) ==
    /\ ret.typed[CheckedFields(ret.op)[k].field] # <<>>
    /\ \/ ret.err = ""
       \/ \E j \in (k + 1)..Len(CheckedFields(ret.op)) : EditRejected(j)

\* C10: for every field shared by creation and edit, the edit flow accepts a
\* non-empty submitted value if and only if the creation flow accepts the same
\* value for that field (quantity: integer > 0 in both).
C10_EditValidatesAsCreation ==
    EditRan =>
        \A k \in 1..Len(CheckedFields(ret.op)) :
            /\ EditAccepted(k) =>
                 CreationAccepts(CheckedFields(ret.op)[k].field,
                                 ret.typed[CheckedFields(ret.op)[k].field])
            /\ EditRejected(k) =>
                 ~CreationAccepts(CheckedFields(ret.op)[k].field,
                                  ret.typed[CheckedFields(ret.op)[k].field])

-----------------------------------------------------------------------------
(* The delete flows: /remove (commands/remove.py) and /remove-sale
   (commands/remove_sales.py) *)

\* delete_row: the sheet is looked up by its title, then one deleteDimension
\* request removes the rows [row_number - 1, row_number); a failing API call
\* or a missing sheet is re-raised as "Failed to delete row"
DeleteRow(book, sheet_name, row_number, apiOk) ==
    IF sheet_name \notin DOMAIN book
    THEN [result |-> "raise", book |-> book]
    ELSE IF ~apiOk \/ row_number \notin 1..Len(book[sheet_name])
    THEN [result |-> "raise", book |-> book]
    ELSE [result |-> "True",
          book |-> [book EXCEPT ![sheet_name] =
                        DeleteDimension(book[sheet_name], row_number - 1, row_number)]]

\* a confirmation view that takes clicks whatever its age
ViewAlwaysListens(view) == TRUE

\* RemoveConfirmView(timeout=60): the view dispatches clicks until it times out
ViewListens(view) == view.alive

\* a click reaches the bot only from a button the message shows as enabled
Clickable(view) == ViewListens(view) /\ ~view.disabled

\* most clicks a user makes on one confirmation view
MaxClicks == 2

\* the sheet a delete flow works on
RemoveSheet(kind) == IF kind = "sale" THEN SALES_SHEET_NAME ELSE UserSheetName

\* the option after the chosen one (the first after the last)
SelectedItemShifted(products, selected_index) ==
    products[((selected_index + 1) % Len(products)) + 1]

\* "self.products[selected_index]", selected_index counting from 0
SelectedItem(products, selected_index) == products[selected_index + 1]

\* a handler task of the view: the button clicked and where the task stands
Handler(button, at) == [button |-> button, at |-> at]

InitRemove ==
    /\ pc = "idle"
    /\ registered \in BOOLEAN
    /\ form = NoForm
    /\ sheet \in EditBooks
    /\ white = {}
    /\ calls = <<>>
    /\ msgs = <<>>
    /\ ret = <<>>

\* bot.py remove(): registration check, read_inventory, the product dropdown
CmdRemove ==
    \E readOk \in BOOLEAN :
        /\ pc = "idle"
        /\ IF ~registered
           THEN /\ msgs' = Append(msgs, Msg("not_registered"))
                /\ UNCHANGED <<calls, form>>
                /\ pc' = "done"
           ELSE IF ~readOk
           THEN /\ calls' = Append(calls, Call("read_inventory", UserSheetName,
                                               0, <<>>, "raise"))
                /\ msgs' = Append(msgs, ErrorMsg("error", "Failed to read inventory"))
                /\ form' = form
                /\ pc' = "done"
           ELSE LET items == ReadInventory(sheet[UserSheetName], StartRow)
                IN  /\ calls' = Append(calls, Call("read_inventory", UserSheetName,
                                                   0, <<>>, "ok"))
                    /\ IF items = <<>>
                       THEN /\ msgs' = Append(msgs, Msg("inventory_empty"))
                            /\ form' = form
                            /\ pc' = "done"
                       ELSE /\ msgs' = Append(msgs, Msg("select_product"))
                            /\ form' = [kind |-> "inventory", products |-> items]
                            /\ pc' = "remove_select"
        /\ UNCHANGED <<registered, sheet, white, ret>>

\* bot.py remove_sale(): registration check, read_sales, the sale dropdown
CmdRemoveSale ==
    \E readOk \in BOOLEAN :
        /\ pc = "idle"
        /\ IF ~registered
           THEN /\ msgs' = Append(msgs, Msg("not_registered"))
                /\ UNCHANGED <<calls, form>>
                /\ pc' = "done"
           ELSE IF ~readOk
           THEN /\ calls' = Append(calls, Call("read_sales", SALES_SHEET_NAME,
                                               0, <<>>, "raise"))
                /\ msgs' = Append(msgs, ErrorMsg("error", "Failed to read sales"))
                /\ form' = form
                /\ pc' = "done"
           ELSE LET sales == ReadSales(sheet[SALES_SHEET_NAME], StartRow)
                IN  /\ calls' = Append(calls, Call("read_sales", SALES_SHEET_NAME,
                                                   0, <<>>, "ok"))
                    /\ IF sales = <<>>
                       THEN /\ msgs' = Append(msgs, Msg("sales_empty"))
                            /\ form' = form
                            /\ pc' = "done"
                       ELSE /\ msgs' = Append(msgs, Msg("select_sale"))
                            /\ form' = [kind |-> "sale", products |-> sales]
                            /\ pc' = "remove_select"
        /\ UNCHANGED <<registered, sheet, white, ret>>

\* RemoveInventorySelectView.product_callback / RemoveSaleSelectView.sale_callback:
\* the confirmation view for products[selected_index]
RemoveSelect ==
    /\ pc = "remove_select"
    /\ \E i \in 1..Len(form.products) :
        /\ i <= MaxOptions
        /\ form' = [kind |-> form.kind, products |-> form.products,
                    selected_index |-> i - 1,
                    item |-> SelectedItem(form.products, i - 1),
                    alive |-> TRUE, disabled |-> FALSE, handlers |-> <<>>]
        /\ msgs' = Append(msgs, Msg("confirm_delete"))
        /\ pc' = "confirm_view"
        /\ UNCHANGED <<registered, sheet, white, calls, ret>>

\* a registration lookup that always finds a user
NoUserNever(user) == FALSE

\* "if not user" after db.get_user
NoUser(user) == ~user

\* a click on "Yes, Delete": the view starts confirm_button, which yields at
\* its first await (interaction.response.defer)
ClickConfirm ==
    /\ pc = "confirm_view"
    /\ Clickable(form)
    /\ Len(form.handlers) < MaxClicks
    /\ form' = [form EXCEPT !.handlers = Append(@, Handler("confirm", "start"))]
    /\ UNCHANGED <<pc, registered, sheet, white, calls, msgs, ret>>

\* confirm_button from db.get_user to followup.send: the registration check,
\* the delete_row call at the captured row_number, and the answer
ConfirmDelete ==
    /\ pc = "confirm_view"
    /\ \E h \in 1..Len(form.handlers), apiOk \in BOOLEAN :
        /\ form.handlers[h] = Handler("confirm", "start")
        /\ IF NoUser(registered)
           THEN /\ msgs' = Append(msgs, Msg("not_registered"))
                /\ form' = [form EXCEPT !.handlers[h].at = "done"]
                /\ UNCHANGED <<sheet, calls, ret>>
           ELSE LET d == DeleteRow(sheet, RemoveSheet(form.kind),
                                   form.item.row_number, apiOk)
                IN  /\ sheet' = d.book
                    /\ calls' = Append(calls, Call("delete_row", RemoveSheet(form.kind),
                                                   form.item.row_number, <<>>, d.result))
                    /\ ret' = [op |-> "delete_row", before |-> sheet,
                               sheet_name |-> RemoveSheet(form.kind),
                               row_number |-> form.item.row_number,
                               result |-> d.result]
                    /\ IF d.result = "raise"
                       THEN /\ msgs' = Append(msgs, ErrorMsg("error", "Failed to delete row"))
                            /\ form' = [form EXCEPT !.handlers[h].at = "done"]
                       ELSE /\ msgs' = Append(msgs, Msg("delete_success"))
                            /\ form' = [form EXCEPT !.handlers[h].at = "sent"]
    /\ UNCHANGED <<pc, registered, white>>

\* the end of confirm_button: the buttons are disabled and the message edited;
\* an exception of the edit is caught by the handler's except branch
ConfirmDisable ==
    /\ pc = "confirm_view"
    /\ \E h \in 1..Len(form.handlers), editOk \in BOOLEAN :
        /\ form.handlers[h] = Handler("confirm", "sent")
        /\ IF editOk
           THEN /\ form' = [form EXCEPT !.handlers[h].at = "done", !.disabled = TRUE]
                /\ msgs' = msgs
           ELSE /\ form' = [form EXCEPT !.handlers[h].at = "done"]
                /\ msgs' = Append(msgs, ErrorMsg("error", "Failed to edit message"))
    /\ UNCHANGED <<pc, registered, sheet, white, calls, ret>>

\* a click on "Cancel": cancel_button answers "Deletion cancelled."
ClickCancel ==
    /\ pc = "confirm_view"
    /\ Clickable(form)
    /\ Len(form.handlers) < MaxClicks
    /\ form' = [form EXCEPT !.handlers = Append(@, Handler("cancel", "sent"))]
    /\ msgs' = Append(msgs, Msg("delete_cancelled"))
    /\ UNCHANGED <<pc, registered, sheet, white, calls, ret>>

\* the end of cancel_button: the buttons are disabled and the message edited;
\* an exception of the edit leaves the handler without an answer
CancelDisable ==
    /\ pc = "confirm_view"
    /\ \E h \in 1..Len(form.handlers), editOk \in BOOLEAN :
        /\ form.handlers[h] = Handler("cancel", "sent")
        /\ form' = [form EXCEPT !.handlers[h].at = "done",
                                !.disabled = IF editOk THEN TRUE ELSE @]
    /\ UNCHANGED <<pc, registered, sheet, white, calls, msgs, ret>>

\* 60 seconds pass without a click: the view stops dispatching
ViewTimeout ==
    /\ pc = "confirm_view"
    /\ form.alive
    /\ form' = [form EXCEPT !.alive = FALSE]
    /\ UNCHANGED <<pc, registered, sheet, white, calls, msgs, ret>>

NextRemove ==
    \/ CmdRemove
    \/ CmdRemoveSale
    \/ RemoveSelect
    \/ ClickConfirm
    \/ ConfirmDelete
    \/ ConfirmDisable
    \/ ClickCancel
    \/ CancelDisable
    \/ ViewTimeout

SpecRemove == InitRemove /\ [][NextRemove]_vars

-----------------------------------------------------------------------------
(* Claims about the delete flows, checked under SpecRemove *)

DeleteCalls == {i \in 1..Len(calls) : calls[i].op = "delete_row"}

\* the handlers of the open confirmation view started by a click on a button
Clicks(button) ==
    IF pc = "confirm_view"
    THEN {h \in 1..Len(form.handlers) : form.handlers[h].button = button}
    ELSE {}

\* C11: there are never more delete_row calls than clicks on Confirm, and a
\* click on Confirm is taken only while the confirmation view has not timed
\* out; a view left to expire without a click has made no delete_row call.
C11_NoDeleteWithoutTimelyConfirm ==
    /\ [](Cardinality(DeleteCalls) <= Cardinality(Clicks("confirm")))
    /\ [][Cardinality(Clicks("confirm"))' > Cardinality(Clicks("confirm"))
            => form.alive]_vars
    /\ []((pc = "confirm_view" /\ Clicks("confirm") = {}) => DeleteCalls = {})

\* a record was selected and the confirmation timed out with no click
C11_Witness ==
    /\ pc = "confirm_view"
    /\ registered
    /\ ~form.alive
    /\ form.handlers = <<>>
    /\ DeleteCalls = {}

\* C12: for a registered user every confirm_button run that got past its
\* first await has made exactly one delete_row call, on the flow's sheet, at
\* the row_number of the record at the selected index of the list the
\* selection view was built from.
C12_ConfirmDeletesCapturedRow ==
    (pc = "confirm_view" /\ registered) =>
        /\ Cardinality(DeleteCalls) =
             Cardinality({h \in Clicks("confirm") : form.handlers[h].at # "start"})
        /\ \A i \in DeleteCalls :
            /\ calls[i].row = form.products[form.selected_index + 1].row_number
            /\ calls[i].sheet = RemoveSheet(form.kind)

\* the second record of the list was selected and its deletion confirmed once
C12_Witness ==
    /\ pc = "confirm_view"
    /\ registered
    /\ form.selected_index = 1
    /\ Cardinality(Clicks("confirm")) = 1
    /\ \E i \in DeleteCalls : calls[i].result = "True" /\ calls[i].row = StartRow + 1
    /\ Cardinality(DeleteCalls) = 1

-----------------------------------------------------------------------------
(* delete_row on its own: calls at any row of sheets whose rows all differ *)

\* most rows of a sheet, and most delete_row calls made on it
MaxDeleteRows == 4
MaxDeletes == 2

\* a sheet of n rows, each holding its original row number in column A
NumberedGrid(n) == [i \in 1..n |-> MkRow([A |-> NatStr(i), B |-> T_Widget])]

DeleteBooks ==
    {[s \in SheetNames |-> IF s = UserSheetName THEN NumberedGrid(n)
                           ELSE NumberedGrid(MaxDeleteRows + 1 - n)]
     : n \in 1..MaxDeleteRows}

InitDelete ==
    /\ pc = "delete_idle"
    /\ registered = TRUE
    /\ form = NoForm
    /\ sheet \in DeleteBooks
    /\ white = {}
    /\ calls = <<>>
    /\ msgs = <<>>
    /\ ret = <<>>

\* delete_row(spreadsheet_id, sheet_name, row_number)
DoDeleteRow ==
    /\ pc \in {"delete_idle", "deleted"}
    /\ Len(calls) < MaxDeletes
    /\ pc' = "deleted"
    /\ \E sheet_name \in SheetNames \cup {"Missing"}, apiOk \in BOOLEAN,
          row_number \in 0..(MaxDeleteRows + 1) :
        LET d == DeleteRow(sheet, sheet_name, row_number, apiOk)
        IN  /\ sheet' = d.book
            /\ ret' = [op |-> "delete_row", before |-> sheet,
                       sheet_name |-> sheet_name, row_number |-> row_number,
                       result |-> d.result]
            /\ calls' = Append(calls, Call("delete_row", sheet_name, row_number,
                                           <<>>, d.result))
    /\ UNCHANGED <<registered, form, white, msgs>>

NextDelete == DoDeleteRow

SpecDelete == InitDelete /\ [][NextDelete]_vars

\* C13: a successful delete_row(row_number) leaves the sheet one row shorter:
\* the rows above row_number keep their position and content, every row
\* below moves up by exactly one, the row that was at row_number is the one
\* gone, and no other sheet changes; a failed call changes nothing.
C13_DeleteRemovesExactlyThatRow ==
    pc = "deleted" =>
        IF ret.result = "True"
        THEN LET g == ret.before[ret.sheet_name]
                 g2 == sheet[ret.sheet_name]
                 r == ret.row_number
             IN  /\ r \in 1..Len(g)
                 /\ Len(g2) = Len(g) - 1
                 /\ \A i \in 1..(r - 1) : g2[i] = g[i]
                 /\ \A i \in r..Len(g2) : g2[i] = g[i + 1]
                 /\ \A i \in 1..Len(g2) : g2[i] # g[r]
                 /\ \A s \in SheetNames \ {ret.sheet_name} : sheet[s] = ret.before[s]
        ELSE sheet = ret.before

\* a row in the middle of a sheet was deleted
C13_Witness ==
    /\ pc = "deleted"
    /\ ret.result = "True"
    /\ ret.row_number = 2
    /\ Len(ret.before[ret.sheet_name]) = 4
    /\ Len(sheet[ret.sheet_name]) = 3

-----------------------------------------------------------------------------
(* Two interactions on one inventory sheet: each is a /remove or an /edit run
   whose handlers interleave with the other's.  In this specification pc,
   form, msgs and ret hold one value per interaction. *)

Sessions == {1, 2}

\* most data rows of the sheet the two interactions share
MaxRaceRows == 2

\* the sheet's grid: headers, data rows, the totals row, one unused row
RaceBooks ==
    {[s \in SheetNames |-> Grid(Stock(n)) \o <<BlankRow>>] : n \in 1..MaxRaceRows}

\* the row found by looking the record up in the sheet as it is now
MutationRowByLookup(book, sheet_name, item) ==
    LET g == book[sheet_name]
        now == {r \in 1..Len(g) : Strip(g[r][ColIndex("B")]) = item.product_name}
    IN  IF now = {} THEN item.row_number ELSE CHOOSE r \in now : TRUE

\* the row a mutation is addressed to: "self.item['row_number']", the number
\* the record got when it was read
MutationRow(book, sheet_name, item) == item.row_number

\* the cells of a row as they are when a mutation reaches it
RowAt(book, sheet_name, row_number) ==
    IF row_number \in 1..Len(book[sheet_name]) THEN book[sheet_name][row_number]
    ELSE BlankRow

InitRace ==
    /\ pc = [s \in Sessions |-> "idle"]
    /\ registered = TRUE
    /\ form = [s \in Sessions |-> NoForm]
    /\ sheet \in RaceBooks
    /\ white = {}
    /\ calls = <<>>
    /\ msgs = [s \in Sessions |-> <<>>]
    /\ ret = [s \in Sessions |-> <<>>]

\* bot.py remove() / edit(): read_inventory, then the product dropdown
RaceCmd(s) ==
    /\ pc[s] = "idle"
    /\ \E flow \in {"remove", "edit"} :
        LET items == ReadInventory(sheet[UserSheetName], StartRow)
        IN  /\ calls' = Append(calls, Call("read_inventory", UserSheetName, 0, <<>>, "ok"))
            /\ IF items = <<>>
               THEN /\ msgs' = [msgs EXCEPT ![s] = Append(@, Msg("inventory_empty"))]
                    /\ form' = form
                    /\ pc' = [pc EXCEPT ![s] = "done"]
               ELSE /\ msgs' = [msgs EXCEPT ![s] = Append(@, Msg("select_product"))]
                    /\ form' = [form EXCEPT ![s] = [flow |-> flow, products |-> items]]
                    /\ pc' = [pc EXCEPT ![s] = "select"]
    /\ UNCHANGED <<registered, sheet, white, ret>>

\* product_callback of either selection view
RaceSelect(s) ==
    /\ pc[s] = "select"
    /\ \E i \in 1..Len(form[s].products) :
        /\ i <= MaxOptions
        /\ form' = [form EXCEPT ![s] = [flow |-> form[s].flow,
                                        item |-> SelectedItem(form[s].products, i - 1)]]
        /\ pc' = [pc EXCEPT ![s] = "chosen"]
    /\ UNCHANGED <<registered, sheet, white, calls, msgs, ret>>

\* RemoveConfirmView.confirm_button, one click
RaceConfirm(s) ==
    /\ pc[s] = "chosen"
    /\ form[s].flow = "remove"
    /\ \E apiOk \in BOOLEAN :
        LET row_number == MutationRow(sheet, UserSheetName, form[s].item)
            d == DeleteRow(sheet, UserSheetName, row_number, apiOk)
        IN  /\ sheet' = d.book
            /\ calls' = Append(calls, Call("delete_row", UserSheetName, row_number,
                                           <<>>, d.result))
            /\ ret' = [ret EXCEPT ![s] =
                         [op |-> "delete_row", row_number |-> row_number,
                          found |-> RowAt(sheet, UserSheetName, row_number),
                          result |-> d.result]]
            /\ msgs' = [msgs EXCEPT ![s] =
                          Append(@, IF d.result = "raise"
                                    THEN ErrorMsg("error", "Failed to delete row")
                                    ELSE Msg("delete_success"))]
    /\ pc' = [pc EXCEPT ![s] = "done"]
    /\ UNCHANGED <<registered, form, white>>

\* EditInventoryModal.on_submit with a new product name typed and the other
\* inputs cleared
RaceEditSubmit(s) ==
    /\ pc[s] = "chosen"
    /\ form[s].flow = "edit"
    /\ \E apiOk \in BOOLEAN :
        LET typed == [product_name |-> <<"N", "e", "w">>, date_purchased |-> <<>>,
                      quantity |-> <<>>, cost_per_unit |-> <<>>, tax |-> <<>>]
            row_number == MutationRow(sheet, UserSheetName, form[s].item)
            c == EditCommit(sheet, UserSheetName, row_number,
                            EditData(form[s].item, typed), COLUMN_MAPPING, apiOk)
        IN  /\ sheet' = c.book
            /\ calls' = calls \o c.calls
            /\ ret' = [ret EXCEPT ![s] =
                         [op |-> "write_data_to_row", row_number |-> row_number,
                          found |-> RowAt(sheet, UserSheetName, row_number),
                          result |-> IF c.calls = <<>> THEN "none"
                                     ELSE c.calls[1].result]]
            /\ msgs' = [msgs EXCEPT ![s] = Append(@, c.msg)]
    /\ pc' = [pc EXCEPT ![s] = "done"]
    /\ UNCHANGED <<registered, form, white>>

NextRace ==
    \E s \in Sessions :
        \/ RaceCmd(s)
        \/ RaceSelect(s)
        \/ RaceConfirm(s)
        \/ RaceEditSubmit(s)

SpecRace == InitRace /\ [][NextRace]_vars

\* interaction s has run its mutating handler
Mutated(s) == pc[s] = "done" /\ "item" \in DOMAIN form[s]

ReportsSuccess(s) ==
    msgs[s][Len(msgs[s])].kind \in {"delete_success", "edit_success"}

\* the row a mutation reached held another record than the one selected
HitOtherRow(s) ==
    Strip(ret[s].found[ColIndex("B")]) # form[s].item.product_name

\* C14: an edit write or a delete is addressed to the row_number the record
\* got when it was read, whatever the sheet holds at that row by the time of
\* the call, and the flow reports success whenever the spreadsheet accepted
\* the call; so a delete of an earlier row by another interaction between the
\* read and the submit makes the mutation land on a different record, or on
\* no record, with success reported (the state C14_Witness).
C14_MutationUsesRowCapturedAtRead ==
    \A s \in Sessions :
        Mutated(s) =>
            /\ ret[s].row_number = form[s].item.row_number
            /\ ret[s].result = "True" => ReportsSuccess(s)

\* an edit of "Widget", read at row 8, was written over "Gadget", which a
\* delete by the other interaction had moved to row 8, and reported success;
\* the other interaction's delete was reported as a success too
C14_Witness ==
    \E s \in Sessions :
        /\ Mutated(s)
        /\ ret[s].op = "write_data_to_row"
        /\ ret[s].result = "True"
        /\ ReportsSuccess(s)
        /\ form[s].item.product_name = T_Widget
        /\ Strip(ret[s].found[ColIndex("B")]) = Strip(T_Gadget)
        /\ HitOtherRow(s)
        /\ \E t \in Sessions \ {s} : Mutated(t) /\ ret[t].op = "delete_row"

-----------------------------------------------------------------------------
(* Every flow of the bot for one user whose registration may be absent from
   the start or be removed from the users table while a form is open *)

\* one stocked inventory sheet and one stocked Sales sheet
UnregBooks ==
    {[s \in SheetNames |-> IF s = UserSheetName THEN Grid(Stock(1)) ELSE Grid(Sold(1))]}

InitUnreg ==
    /\ pc = "idle"
    /\ registered \in BOOLEAN
    /\ form = NoForm
    /\ sheet \in UnregBooks
    /\ white = {}
    /\ calls = <<>>
    /\ msgs = <<>>
    /\ ret = <<>>

\* Database.delete_user: the user's row leaves the users table while an
\* interaction is under way (no command of the bot calls it; every handler
\* re-reads the table with get_user)
RegistrationLost ==
    /\ registered
    /\ pc \notin {"idle", "done", "edit_done", "esale_done"}
    /\ registered' = FALSE
    /\ UNCHANGED <<pc, form, sheet, white, calls, msgs, ret>>

NextUnreg ==
    \/ NextFlow
    \/ NextEdit
    \/ NextRemove
    \/ RegistrationLost

SpecUnreg == InitUnreg /\ [][NextUnreg]_vars

\* a step of a command, or of a form or button handler that reads or mutates
\* the spreadsheet when the user is registered
CommandStep == pc = "idle" /\ pc' # "idle"
SubmitStep(at) == pc = at /\ pc' # at
ConfirmStep ==
    /\ pc = "confirm_view"
    /\ \E h \in 1..Len(form.handlers) :
        /\ form.handlers[h] = Handler("confirm", "start")
        /\ form'.handlers[h].at # "start"
StoreStep ==
    \/ CommandStep
    \/ SubmitStep("step3")
    \/ SubmitStep("sale_modal")
    \/ SubmitStep("edit_modal")
    \/ SubmitStep("esale_modal")
    \/ ConfirmStep

NotRegisteredAnswer == msgs' = Append(msgs, Msg("not_registered"))
NoStoreCall == calls' = calls /\ sheet' = sheet /\ white' = white

-----------------------------------------------------------------------------
(* /setup: SetupModal.on_submit and Database.add_user.  In this specification
   registered holds the users table as a set of rows, pc and form hold one
   value per setup handler in flight, and ret counts the submissions. *)

\* a URL or id as typed: "/" is an element of its own, the text between two
\* slashes is one element
Slash == "/"
UrlInputs ==
    {<<"sid1">>,
     <<"https:", Slash, Slash, "docs.google.com", Slash, "spreadsheets", Slash,
       "d", Slash, "sid2", Slash, "edit">>,
     <<"https:", Slash, Slash, "docs.google.com", Slash, "spreadsheets", Slash,
       "d", Slash>>,
     <<"https:", Slash, Slash, "example.com", Slash, "sheet">>}

\* the first index at which "/d/" starts, 0 if nowhere
RECURSIVE FindSlashD(_, _)
FindSlashD(url, i) ==
    IF i + 2 > Len(url) THEN 0
    ELSE IF url[i] = Slash /\ url[i + 1] = "d" /\ url[i + 2] = Slash THEN i
    ELSE FindSlashD(url, i + 1)

\* extract_spreadsheet_id: the text itself when it holds no slash, else what
\* follows the first "/d/" up to the next slash (parts[1].split('/')[0]); a
\* URL without "/d/" raises ValueError
ExtractSpreadsheetId(url) ==
    IF \A i \in 1..Len(url) : url[i] # Slash
    THEN [ok |-> TRUE, id |-> url]
    ELSE LET at == FindSlashD(url, 1)
         IN  IF at = 0 THEN [ok |-> FALSE, id |-> <<>>]
             ELSE IF at + 3 > Len(url) \/ url[at + 3] = Slash
             THEN [ok |-> TRUE, id |-> <<>>]
             ELSE [ok |-> TRUE, id |-> <<url[at + 3]>>]

\* the spreadsheets shared with the service account and their sheet titles
Drive == [sid1 |-> {"Transactions", "Sales"}, sid2 |-> {"Stock"}]
SheetNameInputs == {"Transactions", "Stock"}

\* verify_sheet_access: what spreadsheets().get() answers, then the title test
VerifyOutcomes == {"ok", "404", "403"}
VerifySheetAccess(spreadsheet_id, sheet_name, outcome) ==
    IF outcome = "403" THEN "Permission denied"
    ELSE IF outcome = "404" \/ Len(spreadsheet_id) # 1
            \/ spreadsheet_id[1] \notin DOMAIN Drive
    THEN "Spreadsheet not found"
    ELSE IF sheet_name \notin Drive[spreadsheet_id[1]]
    THEN "Failed to access spreadsheet: Sheet not found in the spreadsheet"
    ELSE "ok"

\* the except branch of SetupModal.on_submit: "not found" or "404" in the text
SetupErrorKind(error_message) ==
    IF error_message \in {"Spreadsheet not found",
                          "Failed to access spreadsheet: Sheet not found in the spreadsheet"}
    THEN "setup_no_access"
    ELSE "setup_error"

Users == {"u1", "u2"}
UserRow(discord_id, spreadsheet_id, sheet_name) ==
    [discord_id |-> discord_id, spreadsheet_id |-> spreadsheet_id,
     sheet_name |-> sheet_name]
RowsOfUser(table, discord_id) == {r \in table : r.discord_id = discord_id}

\* a users table accepting a second row with the same discord_id
InsertUnchecked(table, row) == [ok |-> TRUE, table |-> table \cup {row}]

\* session.add(User(...)) and commit: discord_id is the primary key, a second
\* row with the same key is refused
InsertUser(table, row) ==
    IF RowsOfUser(table, row.discord_id) # {}
    THEN [ok |-> FALSE, table |-> table]
    ELSE [ok |-> TRUE, table |-> table \cup {row}]

\* existing.spreadsheet_id = ...; existing.sheet_name = ...; commit
UpdateUser(table, row) ==
    [ok |-> TRUE,
     table |-> (table \ RowsOfUser(table, row.discord_id)) \cup
               (IF RowsOfUser(table, row.discord_id) = {} THEN {} ELSE {row})]

SetupMsg(user, kind, spreadsheet_id, sheet_name) ==
    [user |-> user, kind |-> kind, spreadsheet_id |-> spreadsheet_id,
     sheet_name |-> sheet_name]

\* most setup forms submitted
MaxSetups == 2

InitSetup ==
    /\ pc = [s \in Sessions |-> "idle"]
    /\ registered = {}
    /\ form = [s \in Sessions |-> NoForm]
    /\ sheet = [s \in SheetNames |-> Grid(<<>>)]
    /\ white = {}
    /\ calls = <<>>
    /\ msgs = <<>>
    /\ ret = 0

\* SetupModal.on_submit up to the first await inside add_user: the id is
\* extracted, the access verified, and add_user looks the user up
SetupSubmit(s) ==
    /\ pc[s] = "idle"
    /\ ret < MaxSetups
    /\ ret' = ret + 1
    /\ \E user \in Users, url \in UrlInputs, sheet_name \in SheetNameInputs,
          outcome \in VerifyOutcomes :
        LET x == ExtractSpreadsheetId(url)
            v == VerifySheetAccess(x.id, sheet_name, outcome)
        IN  IF ~x.ok
            THEN /\ msgs' = Append(msgs, SetupMsg(user, "setup_invalid_url", <<>>, sheet_name))
                 /\ UNCHANGED <<pc, form, calls>>
            ELSE /\ calls' = Append(calls, [op |-> "verify_sheet_access", user |-> user,
                                            spreadsheet_id |-> x.id,
                                            sheet_name |-> sheet_name, result |-> v])
                 /\ IF v # "ok"
                    THEN /\ msgs' = Append(msgs, SetupMsg(user, SetupErrorKind(v),
                                                          x.id, sheet_name))
                         /\ UNCHANGED <<pc, form>>
                    ELSE /\ msgs' = msgs
                         /\ form' = [form EXCEPT ![s] =
                                        [row |-> UserRow(user, x.id, sheet_name),
                                         existing |-> RowsOfUser(registered, user) # {}]]
                         /\ pc' = [pc EXCEPT ![s] = "saving"]
    /\ UNCHANGED <<registered, sheet, white>>

\* the rest of add_user and of on_submit: the row is updated or inserted and
\* committed, then the success message is sent; a refused commit or a lost
\* database connection reaches the generic except branch
SetupSave(s) ==
    /\ pc[s] = "saving"
    /\ \E dbOk \in BOOLEAN :
        LET w == IF form[s].existing THEN UpdateUser(registered, form[s].row)
                 ELSE InsertUser(registered, form[s].row)
        IN  IF dbOk /\ w.ok
            THEN /\ registered' = w.table
                 /\ msgs' = Append(msgs, SetupMsg(form[s].row.discord_id, "setup_success",
                                                  form[s].row.spreadsheet_id,
                                                  form[s].row.sheet_name))
            ELSE /\ registered' = registered
                 /\ msgs' = Append(msgs, SetupMsg(form[s].row.discord_id, "setup_error",
                                                  form[s].row.spreadsheet_id,
                                                  form[s].row.sheet_name))
    /\ pc' = [pc EXCEPT ![s] = "idle"]
    /\ form' = [form EXCEPT ![s] = NoForm]
    /\ UNCHANGED <<sheet, white, calls, ret>>

NextSetup == \E s \in Sessions : SetupSubmit(s) \/ SetupSave(s)

SpecSetup == InitSetup /\ [][NextSetup]_vars

NoSetupRunning == \A s \in Sessions : pc[s] = "idle"
VerifiedSetups(user) ==
    SelectSeq(calls, LAMBDA c : c.op = "verify_sheet_access" /\ c.user = user
                                /\ c.result = "ok")
SavedSetups(user) ==
    SelectSeq(msgs, LAMBDA m : m.kind = "setup_success" /\ m.user = user)
Last(q) == q[Len(q)]
OneRegistrationPerUser == \A u \in Users : Cardinality(RowsOfUser(registered, u)) <= 1

-----------------------------------------------------------------------------
(* The calls of a successful /add run (SpecFlow) *)

\* part occurs in text as a run of consecutive elements
Contains(text, part) ==
    \E i \in 0..(Len(text) - Len(part)) :
        \A j \in 1..Len(part) : text[i + j] = part[j]

CallSucceeded(c) == c.result \notin {"raise", "none"}
AddRunAllCallsSucceeded ==
    /\ AddRun /\ Step3Ran /\ pc = "done"
    /\ registered
    /\ ~RetailInvalid(form.retail_price)
    /\ \A i \in 1..Len(calls) : CallSucceeded(calls[i])
WritesCell(c, col, value) ==
    \E u \in {c.cells[i] : i \in 1..Len(c.cells)} :
        /\ u.sheet = UserSheetName /\ u.col = col /\ u.row = c.row
        /\ u.value = value

\* C17: a fully valid add-product submission of a registered user whose
\* collaborator calls all succeed issues exactly four calls, in this order: one
\* call_apps_script; one write_data_to_row to the row it returned, holding the
\* generated id and the name, date, quantity, store, cost and tax; one
\* set_cell_text_color and one write_formula on that same row, the formula's
\* dashboard URL containing the same generated id.
C17_AddIssuesCreateWriteFinalizeInOrder ==
    AddRunAllCallsSucceeded =>
        /\ Len(calls) = 4
        /\ calls[1].op = "call_apps_script"
        /\ calls[1].row > 0
        /\ calls[2].op = "write_data_to_row"
        /\ calls[2].row = calls[1].row
        /\ WritesCell(calls[2], "A", form.product_uuid)
        /\ WritesCell(calls[2], "B", form.step1.product_name)
        /\ WritesCell(calls[2], "C", form.step1.date_purchased)
        /\ WritesCell(calls[2], "D", IntStr(IntParse(form.step1.quantity).val))
        /\ WritesCell(calls[2], "H", form.store)
        /\ WritesCell(calls[2], "L", FloatStr(FloatParse(form.step1.cost_per_unit).val))
        /\ WritesCell(calls[2], "M", FloatStr(FloatParse(form.step1.tax).val))
        /\ calls[3].op = "set_cell_text_color"
        /\ calls[3].row = calls[1].row
        /\ <<UserSheetName, "A", calls[1].row>> \in white
        /\ calls[4].op = "write_formula"
        /\ calls[4].row = calls[1].row
        /\ Len(calls[4].cells) = 1
        /\ calls[4].cells[1].col = "B"
        /\ calls[4].cells[1].row = calls[1].row
        /\ Contains(calls[4].cells[1].value, <<"/product/">> \o form.product_uuid)

\* a run that added " Gadget " with quantity " 3" typed, answered with the
\* success message after its four calls
C17_Witness ==
    /\ AddRunAllCallsSucceeded
    /\ LastMsg.kind = "success"
    /\ form.step1.product_name = T_Gadget
    /\ form.step1.quantity = <<" ", "3">>
    /\ form.product_uuid = <<"uuid-2">>
    /\ Len(calls) = 4

-----------------------------------------------------------------------------
(* The readers on cells of any text: read_inventory, read_sales and
   read_product_by_uuid (google_sheets.py) *)

\* float(clean(x)) if x else 0.0, with no try around it: [ok |-> FALSE] is the
\* ValueError that leaves the expression
CurrencyOrRaise(x) ==
    IF x = <<>> THEN [ok |-> TRUE, val |-> FloatZero]
    ELSE FloatParse(CurrencyClean(x))

\* for row_index, row in enumerate(values[start_row - 1:], start=start_row):
\* the first row_index with "row and row[0] == product_uuid", 0 when none
RECURSIVE FindUuid(_, _, _)
FindUuid(values, product_uuid, row_index) ==
    IF row_index > Len(values) THEN 0
    ELSE IF values[row_index] # <<>> /\ values[row_index][1] = product_uuid
    THEN row_index
    ELSE FindUuid(values, product_uuid, row_index + 1)

\* read_product_by_uuid: "none" when no row holds the id; "raise" when one of
\* the three float() calls raises, which the outer except re-raises as
\* "Failed to read product by UUID"
ReadProductByUuid(grid, product_uuid, start_row) ==
    LET row_index == FindUuid(ColumnGet(grid, "A"), product_uuid, start_row)
        data == PadRow(ValuesGet(grid, "A", row_index, "T", row_index)[1], 20)
        cost == CurrencyOrRaise(data[12])
        tax == CurrencyOrRaise(data[13])
        retail == CurrencyOrRaise(data[15])
    IN  IF row_index = 0 THEN [result |-> "none", items |-> <<>>]
        ELSE IF ~cost.ok \/ ~tax.ok \/ ~retail.ok
        THEN [result |-> "raise", items |-> <<>>]
        ELSE [result |-> "ok",
              items |-> <<[uuid |-> data[1], product_name |-> data[2],
                           date_purchased |-> data[3], qty_purchased |-> data[4],
                           qty_available |-> data[5], store |-> data[8],
                           links |-> data[10], cost_per_unit |-> cost.val,
                           tax |-> tax.val, retail_price |-> retail.val,
                           row_number |-> row_index]>>]

TaxCells ==
    {<<>>, <<"1", "0", ".", "0", "0">>, <<"$", "1", ",", "0", "0", "0", ".", "5", "0">>,
     <<"0">>, <<"-", "3">>, <<"a", "b", "c">>, <<"n", "a", "n">>, <<"i", "n", "f">>,
     <<" ", "5", " ">>, <<"$">>}
QtyCells ==
    {<<>>, <<"4">>, <<"0">>, <<"-", "4">>, <<"2", ".", "5">>, <<"x">>,
     <<"1", ",", "0", "0", "0">>, <<"i", "n", "f">>, <<"n", "a", "n">>,
     <<" ", "4">>, <<"$", "4">>}
CostCells == {<<>>, <<"$", "1", "0", ".", "0", "0">>, <<"N", "/", "A">>}
AvailCells == {<<"3">>, <<"3", ".", "0">>}

CellsBook(t, q, c, a) ==
    [s \in SheetNames |->
        IF s = UserSheetName
        THEN Grid(<<MkRow([A |-> <<"uuid-0">>, B |-> T_Widget, C |-> T_Date,
                           D |-> q, E |-> a, L |-> c, M |-> t])>>)
        ELSE Grid(<<MkRow([B |-> T_Widget, C |-> T_Date, D |-> q, F |-> c,
                           H |-> t])>>)]

InitCells ==
    /\ pc = "cells_idle"
    /\ registered = TRUE
    /\ \E t \in TaxCells, q \in QtyCells, c \in CostCells, a \in AvailCells :
        /\ form = [tax |-> t, qty |-> q, cost |-> c, avail |-> a]
        /\ sheet = CellsBook(t, q, c, a)
    /\ white = {}
    /\ calls = <<>>
    /\ msgs = <<>>
    /\ ret = <<>>

\* what a reader answers when values().get() itself fails
ApiRaise(op) == [op |-> op, result |-> "raise", cause |-> "api", items |-> <<>>]

CellsReadInventory ==
    /\ pc = "cells_idle"
    /\ pc' = "cells_done"
    /\ \E apiOk \in BOOLEAN :
        ret' = IF ~apiOk THEN ApiRaise("read_inventory")
               ELSE [op |-> "read_inventory", result |-> "ok", cause |-> "",
                     items |-> ReadInventory(sheet[UserSheetName], StartRow)]
    /\ UNCHANGED <<registered, form, sheet, white, calls, msgs>>

CellsReadSales ==
    /\ pc = "cells_idle"
    /\ pc' = "cells_done"
    /\ \E apiOk \in BOOLEAN :
        ret' = IF ~apiOk THEN ApiRaise("read_sales")
               ELSE [op |-> "read_sales", result |-> "ok", cause |-> "",
                     items |-> ReadSales(sheet[SALES_SHEET_NAME], StartRow)]
    /\ UNCHANGED <<registered, form, sheet, white, calls, msgs>>

CellsReadProductByUuid ==
    /\ pc = "cells_idle"
    /\ pc' = "cells_done"
    /\ \E apiOk \in BOOLEAN, product_uuid \in {<<"uuid-0">>, <<"uuid-1">>} :
        ret' = IF ~apiOk THEN ApiRaise("read_product_by_uuid")
               ELSE LET r == ReadProductByUuid(sheet[UserSheetName], product_uuid,
                                               StartRow)
                    IN  [op |-> "read_product_by_uuid", result |-> r.result,
                         cause |-> IF r.result = "raise" THEN "ValueError" ELSE "",
                         items |-> r.items]
    /\ UNCHANGED <<registered, form, sheet, white, calls, msgs>>

NextCells == CellsReadInventory \/ CellsReadSales \/ CellsReadProductByUuid

SpecCells == InitCells /\ [][NextCells]_vars

CellsRead(op) == pc = "cells_done" /\ ret.op = op /\ ret.cause # "api"
IsPositive(x) == ~x.neg /\ (x.k = "inf" \/ (x.k = "num" /\ x.m > 0))

\* q is a / b for floats a and b > 0 (q * b = a for finite numbers)
IsQuotient(q, a, b) ==
    IF a.k = "nan" \/ (a.k = "inf" /\ b.k = "inf") THEN q.k = "nan"
    ELSE IF a.k = "inf" THEN q.k = "inf" /\ q.neg = a.neg
    ELSE IF b.k = "inf" THEN q.k = "num" /\ q.m = 0
    ELSE /\ q.k = "num"
         /\ q.neg = a.neg
         /\ q.m * b.m * Pow10(a.e) = a.m * Pow10(q.e + b.e)

\* C18: the record read_inventory returns for a row has tax_per_unit equal to
\* tax total / quantity purchased when both cells hold text, both parse as
\* numbers and the quantity is > 0, and equal to 0 in every other case; the
\* read returns the record whatever the two cells hold.
C18_TaxPerUnitIsQuotientOrZero ==
    CellsRead("read_inventory") =>
        /\ ret.result = "ok"
        /\ Len(ret.items) = 1
        /\ LET a == FloatParse(CurrencyClean(form.tax))
               b == FloatParse(Remove(form.qty, ","))
           IN  IF form.tax # <<>> /\ form.qty # <<>> /\ a.ok /\ b.ok
                  /\ IsPositive(b.val)
               THEN IsQuotient(ret.items[1].tax_per_unit, a.val, b.val)
               ELSE ret.items[1].tax_per_unit = FloatZero

\* tax total 10.00 over quantity 4 read as 2.5
C18_Witness ==
    /\ CellsRead("read_inventory")
    /\ form.tax = <<"1", "0", ".", "0", "0">>
    /\ form.qty = <<"4">>
    /\ ret.items[1].tax_per_unit = [k |-> "num", neg |-> FALSE, m |-> 25, e |-> 1]

\* the same tax total over quantity 0 read as 0
C18_WitnessZeroQuantity ==
    /\ CellsRead("read_inventory")
    /\ form.tax = <<"1", "0", ".", "0", "0">>
    /\ form.qty = <<"0">>
    /\ ret.items[1].tax_per_unit = FloatZero

Malformed(cell) == cell # <<>> /\ ~FloatParse(CurrencyClean(cell)).ok
MalformedInt(cell) == cell # <<>> /\ ~IntParse(Remove(cell, ",")).ok

\* C19: whatever text the cells hold, a read that the spreadsheet service
\* answered does not fail: read_inventory and read_sales return the row's
\* record, read_product_by_uuid returns the product whose id it was given, and
\* a malformed currency or integer cell is decoded as 0.
C19_NoReadFailsOnCellText ==
    /\ CellsRead("read_inventory") =>
        /\ ret.result = "ok" /\ Len(ret.items) = 1
        /\ Malformed(form.cost) => ret.items[1].cost_per_unit = FloatZero
        /\ MalformedInt(form.avail) => ret.items[1].qty_available = 0
    /\ CellsRead("read_sales") =>
        /\ ret.result = "ok" /\ Len(ret.items) = 1
        /\ Malformed(form.cost) => ret.items[1].price_per_unit = FloatZero
        /\ Malformed(form.tax) => ret.items[1].shipping_cost = FloatZero
        /\ MalformedInt(form.qty) => ret.items[1].quantity_sold = 0
    /\ CellsRead("read_product_by_uuid") =>
        /\ ret.result # "raise"
        /\ ret.result = "ok" =>
            /\ Malformed(form.cost) => ret.items[1].cost_per_unit = FloatZero
            /\ Malformed(form.tax) => ret.items[1].tax = FloatZero

\* the part of C19 about read_inventory and read_sales alone
C19_ListReadsNeverFailOnCellText ==
    /\ CellsRead("read_inventory") =>
        /\ ret.result = "ok" /\ Len(ret.items) = 1
        /\ Malformed(form.cost) => ret.items[1].cost_per_unit = FloatZero
        /\ MalformedInt(form.avail) => ret.items[1].qty_available = 0
    /\ CellsRead("read_sales") =>
        /\ ret.result = "ok" /\ Len(ret.items) = 1
        /\ Malformed(form.cost) => ret.items[1].price_per_unit = FloatZero
        /\ Malformed(form.tax) => ret.items[1].shipping_cost = FloatZero
        /\ MalformedInt(form.qty) => ret.items[1].quantity_sold = 0

\* read_product_by_uuid found the row of the id it was given, whose cost cell
\* reads "N/A", and raised
C19_ProductReadRaised ==
    /\ CellsRead("read_product_by_uuid")
    /\ form.cost = <<"N", "/", "A">>
    /\ ret.result = "raise"

-----------------------------------------------------------------------------
(* Failing backing-store calls in the add, sale, edit and delete flows
   (SpecUnreg: every command and handler of the four flows) *)

NewCalls == SubSeq(calls', Len(calls) + 1, Len(calls'))
CallFailed(c) == c.result \in {"raise", "none"}
FailureMsgKinds == {"error", "row_creation_failed", "sale_row_creation_failed"}

\* the handler that made the step's calls has returned
HandlerReturned ==
    \/ pc' \in {"done", "edit_done", "esale_done"}
    \/ /\ pc' = "confirm_view" /\ pc = "confirm_view"
       /\ \E h \in 1..Len(form.handlers) :
            /\ form.handlers[h].at = "start"
            /\ form'.handlers[h].at = "done"
            /\ \A g \in 1..Len(form.handlers) :
                g # h => form'.handlers[g] = form.handlers[g]

-----------------------------------------------------------------------------
(* Step 3 of /add: the optional retail price (SpecFlow) *)

\* x >= 0 for a float: false for nan, true for -0.0
IsNonNegative(x) == x.k # "nan" /\ (~x.neg \/ (x.k = "num" /\ x.m = 0))
ParsesNonNegative(text) == FloatParse(text).ok /\ IsNonNegative(FloatParse(text).val)

\* C21: when step 3 of the add flow is submitted by a registered user with a
\* non-empty retail price that is no number >= 0, the flow ends with the
\* retail-price message, no call_apps_script call, no other call and the
\* spreadsheet as it was; with an empty retail price the flow goes on to
\* call_apps_script.
C21_BadRetailPriceAbortsBeforeCreate ==
    (AddRun /\ Step3Ran /\ registered) =>
        /\ (form.retail_price # <<>> /\ ~ParsesNonNegative(form.retail_price)) =>
            /\ pc = "done"
            /\ LastMsg.kind = "invalid_retail"
            /\ calls = <<>>
            /\ AbortedBeforeCommit
        /\ form.retail_price = <<>> =>
            /\ LastMsg.kind # "invalid_retail"
            /\ calls # <<>>
            /\ calls[1].op = "call_apps_script"

\* C21 with "no number >= 0" read as the code tests it: float() raises or the
\* value is < 0
C21_RejectedRetailPriceAbortsBeforeCreate ==
    (AddRun /\ Step3Ran /\ registered) =>
        /\ (form.retail_price # <<>>
            /\ (~FloatParse(form.retail_price).ok
                \/ ~(IsNonNegative(FloatParse(form.retail_price).val)
                     \/ FloatParse(form.retail_price).val.k = "nan"))) =>
            /\ pc = "done"
            /\ LastMsg.kind = "invalid_retail"
            /\ calls = <<>>
            /\ AbortedBeforeCommit
        /\ form.retail_price = <<>> =>
            /\ LastMsg.kind # "invalid_retail"
            /\ calls # <<>>
            /\ calls[1].op = "call_apps_script"

\* a run whose retail price "nan" went through: the row was created and "nan"
\* written to the retail column
C21_NanRetailPriceCommitted ==
    /\ AddRun /\ Step3Ran /\ registered
    /\ form.retail_price = <<"n", "a", "n">>
    /\ LastMsg.kind = "success"
    /\ Len(calls) = 4
    /\ WritesCell(calls[2], "O", <<"n", "a", "n">>)

-----------------------------------------------------------------------------
(* The record-sale form (SpecFlow) *)

SaleSubmitted == "sold_date" \in DOMAIN form /\ pc = "done"
CreateCalls == {i \in 1..Len(calls) : calls[i].op = "call_apps_script"}
SaleWriteCalls == {i \in 1..Len(calls) : calls[i].op = "write_data_to_row"}
SaleQuantityValid ==
    IntParse(form.quantity_sold).ok /\ IntParse(form.quantity_sold).val > 0
WritesSaleCell(c, col, value) ==
    \E u \in {c.cells[i] : i \in 1..Len(c.cells)} :
        /\ u.sheet = SALES_SHEET_NAME /\ u.col = col /\ u.row = c.row
        /\ u.value = value

\* the calls of a committed sale: after the command's read, one
\* call_apps_script and one write_data_to_row of the five fields to its row
SaleCommitted ==
    /\ Len(calls) = 3
    /\ calls[2].op = "call_apps_script" /\ calls[2].row > 0
    /\ calls[3].op = "write_data_to_row" /\ calls[3].row = calls[2].row
    /\ Len(calls[3].cells) = 5
    /\ WritesSaleCell(calls[3], "B", form.product_name)
    /\ WritesSaleCell(calls[3], "C", form.sold_date)
    /\ WritesSaleCell(calls[3], "D", IntStr(IntParse(form.quantity_sold).val))
    /\ WritesSaleCell(calls[3], "F", FloatStr(FloatParse(form.price_per_unit).val))
    /\ WritesSaleCell(calls[3], "H", FloatStr(FloatParse(form.shipping_cost).val))

\* C22: a submitted sale form with an invalid field (date not MM/DD/YYYY,
\* quantity no integer > 0, price or shipping no number >= 0) ends with no
\* call_apps_script call, no write and the spreadsheet as it was; a valid one
\* of a registered user whose calls succeed ends with exactly one
\* call_apps_script followed by one write of the five sale fields to the row
\* it returned.
C22_SaleCreatesRowOnlyAfterValidation ==
    SaleSubmitted =>
        IF /\ DateMatches(form.sold_date)
           /\ SaleQuantityValid
           /\ ParsesNonNegative(form.price_per_unit)
           /\ ParsesNonNegative(form.shipping_cost)
        THEN (registered /\ \A i \in 1..Len(calls) : CallSucceeded(calls[i]))
                => SaleCommitted
        ELSE CreateCalls = {} /\ SaleWriteCalls = {} /\ sheet \in FlowBooks

\* C22 with "valid" read as the code tests it (SaleError)
C22_SaleCreatesRowOnlyAfterCodeValidation ==
    SaleSubmitted =>
        IF SaleError(form.sold_date, form.quantity_sold, form.price_per_unit,
                     form.shipping_cost) = ""
        THEN (registered /\ \A i \in 1..Len(calls) : CallSucceeded(calls[i]))
                => SaleCommitted
        ELSE CreateCalls = {} /\ SaleWriteCalls = {} /\ sheet \in FlowBooks

\* a sale whose price "nan" passed the checks: a row was created and "nan"
\* written to the price column
C22_NanPriceCommitted ==
    /\ SaleSubmitted
    /\ form.price_per_unit = <<"n", "a", "n">>
    /\ SaleCommitted
    /\ LastMsg.kind = "success"

-----------------------------------------------------------------------------
(* Edit forms with an invalid field (SpecEdit) *)

IsNegative(x) == x.neg /\ (x.k = "inf" \/ (x.k = "num" /\ x.m > 0))

\* a filled-in input that its edit form does not take: a date that is not
\* MM/DD/YYYY, a quantity that is no integer or is negative (zero too in the
\* sale form), a cost, tax, price or shipping that is no number or is negative
EditFieldInvalid(op, field, text) ==
    /\ text # <<>>
    /\ CASE field \in {"date_purchased", "sold_date"} -> ~DateMatches(text)
         [] field = "quantity" -> ~IntParse(text).ok \/ IntParse(text).val < 0
         [] field = "quantity_sold" -> ~IntParse(text).ok \/ IntParse(text).val <= 0
         [] field \in {"cost_per_unit", "tax", "price_per_unit", "shipping_cost"} ->
                ~FloatParse(text).ok \/ IsNegative(FloatParse(text).val)
         [] OTHER -> FALSE

SomeEditFieldInvalid ==
    \E f \in EditFields(ret.op) : EditFieldInvalid(ret.op, f, ret.typed[f])

-----------------------------------------------------------------------------
(* The id migration: migrations/backfill_uuids.py, for one user *)

\* "if not item.get('uuid') or item['uuid'].strip() == ''"
NeedsUuid(item) == item.uuid = <<>> \/ Strip(item.uuid) = <<>>

\* str(uuid.uuid4()): the k-th id generated by the run
NewUuid(k) == <<"new-uuid">> \o IntStr(k)

\* rows a sheet may hold before the migration: with or without an id, sold or
\* not, named or not
T_Blanks == <<" ", " ">>
BackfillRowKinds ==
    {MkRow([B |-> T_Widget, D |-> <<"4">>]),
     MkRow([A |-> <<"uuid-0">>, B |-> T_Gadget, D |-> <<"2">>]),
     MkRow([B |-> T_Widget, D |-> <<"4">>, T |-> T_TRUE]),
     MkRow([A |-> <<"uuid-0">>, B |-> T_Widget, T |-> T_TRUE]),
     MkRow([A |-> T_Blanks, B |-> T_Gadget]),
     MkRow([D |-> <<"7">>])}

\* most data rows of the sheet the migration runs on
MaxBackfillRows == 2

BackfillFailures == {"none", "write", "color", "formula"}

InitBackfill ==
    /\ pc = "backfill_idle"
    /\ registered = TRUE
    /\ form = NoForm
    /\ \E rows \in SeqsUpTo(BackfillRowKinds, MaxBackfillRows) :
        sheet = [s \in SheetNames |-> Grid(rows)]
    /\ white = {}
    /\ calls = <<>>
    /\ msgs = <<>>
    /\ ret = 0

\* items = sheets_manager.read_inventory(..., start_row=8); an exception ends
\* the work on this user
BackfillRead ==
    /\ pc = "backfill_idle"
    /\ \E readOk \in BOOLEAN :
        IF readOk
        THEN /\ form' = [before |-> sheet[UserSheetName],
                         items |-> ReadInventory(sheet[UserSheetName], StartRow),
                         next |-> 1]
             /\ calls' = Append(calls, Call("read_inventory", UserSheetName, 0, <<>>, "ok"))
             /\ pc' = "backfill_items"
        ELSE /\ form' = [before |-> sheet[UserSheetName], items |-> <<>>, next |-> 1]
             /\ calls' = Append(calls, Call("read_inventory", UserSheetName, 0, <<>>,
                                            "raise"))
             /\ pc' = "backfill_failed"
    /\ UNCHANGED <<registered, sheet, white, msgs, ret>>

\* one turn of "for item in items": an item without an id gets a new one
\* written to column A, the cell coloured white and the name cell its formula
BackfillItem ==
    /\ pc = "backfill_items"
    /\ form.next <= Len(form.items)
    /\ LET item == form.items[form.next]
           row == item.row_number
           new_uuid == NewUuid(ret + 1)
       IN  IF ~NeedsUuid(item)
           THEN /\ form' = [form EXCEPT !.next = @ + 1]
                /\ UNCHANGED <<pc, sheet, white, calls, ret>>
           ELSE \E fail \in BackfillFailures :
                LET w == WriteDataToRow(sheet, UserSheetName, row,
                                        <<Item("uuid", new_uuid)>>, COLUMN_MAPPING,
                                        fail # "write")
                    wf == WriteFormula(w.book, UserSheetName, "B", row,
                                       HyperlinkFormula(DashboardUrl(new_uuid),
                                                        item.product_name),
                                       fail # "formula")
                    write == Call("write_data_to_row", UserSheetName, row,
                                  UpdateData(UserSheetName, row,
                                             <<Item("uuid", new_uuid)>>, COLUMN_MAPPING),
                                  w.result)
                    color == Call("set_cell_text_color", UserSheetName, row, <<>>,
                                  IF fail = "color" THEN "raise" ELSE "True")
                    fcall == Call("write_formula", UserSheetName, row, <<>>, wf.result)
                IN  IF fail = "write"
                    THEN /\ calls' = calls \o <<write>>
                         /\ pc' = "backfill_failed"
                         /\ UNCHANGED <<sheet, white, form, ret>>
                    ELSE IF fail = "color"
                    THEN /\ calls' = calls \o <<write, color>>
                         /\ sheet' = w.book
                         /\ pc' = "backfill_failed"
                         /\ UNCHANGED <<white, form, ret>>
                    ELSE IF fail = "formula"
                    THEN /\ calls' = calls \o <<write, color, fcall>>
                         /\ sheet' = w.book
                         /\ white' = white \cup {<<UserSheetName, "A", row>>}
                         /\ pc' = "backfill_failed"
                         /\ UNCHANGED <<form, ret>>
                    ELSE /\ calls' = calls \o <<write, color, fcall>>
                         /\ sheet' = wf.book
                         /\ white' = white \cup {<<UserSheetName, "A", row>>}
                         /\ form' = [form EXCEPT !.next = @ + 1]
                         /\ ret' = ret + 1
                         /\ pc' = pc
    /\ UNCHANGED <<registered, msgs>>

\* the loop has run out of items: "Updated n products for this user"
BackfillDone ==
    /\ pc = "backfill_items"
    /\ form.next > Len(form.items)
    /\ pc' = "backfill_done"
    /\ UNCHANGED <<registered, form, sheet, white, calls, msgs, ret>>

NextBackfill == BackfillRead \/ BackfillItem \/ BackfillDone

SpecBackfill == InitBackfill /\ [][NextBackfill]_vars

BackfillRange == StartRow..(LastRow(form.before) - 1)
IsGeneratedId(text) == \E k \in 1..ret : text = NewUuid(k)
HadNoId(row) == ~EmptyName(row[2]) /\ row[1] = <<>>
HadId(row) == Strip(row[1]) # <<>>

\* C24: once the migration has gone through a user's sheet without an
\* exception, every row of the data range that has a product name and had an
\* empty id cell holds a generated id, rows marked sold included, and every
\* row that had an id holds the same id.
C24_BackfillGivesEveryNamedRowAnId ==
    pc = "backfill_done" =>
        \A r \in BackfillRange :
            /\ HadNoId(form.before[r]) => IsGeneratedId(sheet[UserSheetName][r][1])
            /\ HadId(form.before[r]) =>
                sheet[UserSheetName][r][1] = form.before[r][1]

\* C24 for the rows read_inventory returns: named and not marked sold
C24_BackfillGivesUnsoldNamedRowsAnId ==
    pc = "backfill_done" =>
        \A r \in BackfillRange :
            /\ (HadNoId(form.before[r]) /\ ~SoldChecked(form.before[r][20]))
                => IsGeneratedId(sheet[UserSheetName][r][1])
            /\ HadId(form.before[r]) =>
                sheet[UserSheetName][r][1] = form.before[r][1]

\* the migration is done, an unsold row got its id, and the sold row next to
\* it still has none
C24_SoldRowLeftWithoutId ==
    /\ pc = "backfill_done"
    /\ ret = 1
    /\ \E r \in BackfillRange, q \in BackfillRange :
        /\ HadNoId(form.before[r]) /\ SoldChecked(form.before[r][20])
        /\ sheet[UserSheetName][r][1] = <<>>
        /\ HadNoId(form.before[q]) /\ IsGeneratedId(sheet[UserSheetName][q][1])

-----------------------------------------------------------------------------
(* The range the readers fetch: rows start_row..last_row - 1
   (google_sheets.py read_inventory / read_sales) *)

\* How the spreadsheet service answers values().get() for a range whose end
\* row lies above its start row, such as "A8:T7"; the source does not say, so
\* every answer the service may give is a possible outcome: no rows, the rows
\* of the same rectangle read upwards (r2..r1), or an HttpError
ReversedRangeAnswers == {"none", "box", "error"}

RangeGet(grid, c1, r1, c2, r2, reversed) ==
    IF r2 >= r1 THEN [ok |-> TRUE, values |-> ValuesGet(grid, c1, r1, c2, r2)]
    ELSE IF reversed = "none" THEN [ok |-> TRUE, values |-> <<>>]
    ELSE IF reversed = "box" THEN [ok |-> TRUE, values |-> ValuesGet(grid, c1, r2, c2, r1)]
    ELSE [ok |-> FALSE, values |-> <<>>]

\* read_inventory / read_sales from "last_row = len(values)" on
ReadRange(op, grid, start_row, reversed) ==
    LET last_row == LastRow(grid)
        got == IF op = "read_inventory"
               THEN RangeGet(grid, "A", start_row, "T", last_row - 1, reversed)
               ELSE RangeGet(grid, "B", start_row, "H", last_row - 1, reversed)
    IN  IF last_row < start_row THEN [result |-> "ok", items |-> <<>>]
        ELSE IF ~got.ok THEN [result |-> "raise", items |-> <<>>]
        ELSE [result |-> "ok",
              items |-> IF op = "read_inventory"
                        THEN InventoryItems(got.values, start_row, 1)
                        ELSE SalesItems(got.values, start_row, 1)]

\* most data rows between the headers and the totals row
MaxRangeRows == 3

RangeRowKinds ==
    {MkRow([A |-> <<"uuid-0">>, B |-> T_Widget, C |-> T_Date, D |-> <<"4">>,
            E |-> <<"3">>, F |-> <<"5">>, H |-> <<"1">>]),
     MkRow([B |-> T_Gadget, D |-> <<"2">>, T |-> T_TRUE]),
     BlankRow}

\* sheets laid out with headers, data rows and the totals row, and sheets
\* that end within the header rows
RangeGrids ==
    {Grid(rows) : rows \in SeqsUpTo(RangeRowKinds, MaxRangeRows)}
    \cup {Take(Headers, k) : k \in 0..(StartRow - 1)}

\* start_row as the callers pass it: 8, and 7 for the sales read of /ask
RangeStartRows == {StartRow - 1, StartRow}

InitRange ==
    /\ pc = "range_idle"
    /\ registered = TRUE
    /\ \E g \in RangeGrids : sheet = [s \in SheetNames |-> g]
    /\ form \in [start_row : RangeStartRows]
    /\ white = {}
    /\ calls = <<>>
    /\ msgs = <<>>
    /\ ret = <<>>

\* what the caller of a reader gets: its records, or the re-raised exception
RangeOutcome(op, sheet_name, apiOk, reversed) ==
    LET r == ReadRange(op, sheet[sheet_name], form.start_row, reversed)
    IN  [op |-> op,
         result |-> IF apiOk THEN r.result ELSE "raise",
         cause |-> IF apiOk THEN "" ELSE "api",
         items |-> IF apiOk THEN r.items ELSE <<>>,
         last_row |-> LastRow(sheet[sheet_name])]

RangeReadInventory ==
    /\ pc = "range_idle"
    /\ pc' = "range_done"
    /\ \E apiOk \in BOOLEAN, reversed \in ReversedRangeAnswers :
        ret' = RangeOutcome("read_inventory", UserSheetName, apiOk, reversed)
    /\ UNCHANGED <<registered, form, sheet, white, calls, msgs>>

RangeReadSales ==
    /\ pc = "range_idle"
    /\ pc' = "range_done"
    /\ \E apiOk \in BOOLEAN, reversed \in ReversedRangeAnswers :
        ret' = RangeOutcome("read_sales", SALES_SHEET_NAME, apiOk, reversed)
    /\ UNCHANGED <<registered, form, sheet, white, calls, msgs>>

NextRange == RangeReadInventory \/ RangeReadSales

SpecRange == InitRange /\ [][NextRange]_vars

RangeAnswered == pc = "range_done" /\ ret.cause # "api"
RecordsWithinRange ==
    \A i \in 1..Len(ret.items) :
        /\ form.start_row <= ret.items[i].row_number
        /\ ret.items[i].row_number <= ret.last_row - 1

\* C25: every record a read returns has start_row <= row_number <= last_row - 1,
\* last_row being the last occupied row of column B, so the totals row is
\* never returned; and the read returns no record, and does not fail, both
\* when last_row < start_row and when last_row = start_row.
C25_RecordsLieInStartToLastMinusOne ==
    RangeAnswered =>
        /\ ret.result = "ok" => RecordsWithinRange
        /\ ret.last_row <= form.start_row => (ret.result = "ok" /\ ret.items = <<>>)

\* C25 without the case last_row = start_row
C25_RecordsLieInRangeUnlessStartIsLast ==
    (RangeAnswered /\ ret.last_row # form.start_row) =>
        /\ ret.result = "ok"
        /\ RecordsWithinRange
        /\ ret.last_row < form.start_row => ret.items = <<>>

\* the sheet holds the headers and the totals row in row 8 only, the service
\* read "A8:T7" as the rows 7..8, and the header row came back as a record
\* numbered 8
C25_HeaderReturnedAsRecord ==
    /\ RangeAnswered
    /\ form.start_row = StartRow /\ ret.last_row = StartRow
    /\ ret.result = "ok"
    /\ Len(ret.items) = 2
    /\ ret.items[1].product_name = <<"Product">>
    /\ ret.items[1].row_number = StartRow

-----------------------------------------------------------------------------
(* Step 1 of /add: the order of the checks (SpecFlow) *)

Step1Passed == "quantity" \in DOMAIN form
Step1Answers == {"invalid_date", "invalid_quantity", "invalid_cost_tax", "select_store"}
Step1Messages == SelectSeq(msgs, LAMBDA m : m.kind \in Step1Answers)

\* the message of the first step-1 field, in the order date, quantity,
\* cost/tax, that is not a date MM/DD/YYYY, an integer > 0, numbers >= 0
FirstInvalidField(t) ==
    IF ~DateMatches(t.date_purchased) THEN "invalid_date"
    ELSE IF ~(IntParse(t.quantity).ok /\ IntParse(t.quantity).val > 0)
    THEN "invalid_quantity"
    ELSE IF ~(ParsesNonNegative(t.cost_per_unit) /\ ParsesNonNegative(t.tax))
    THEN "invalid_cost_tax"
    ELSE "select_store"

\* the same with cost and tax tested as the handler does: float() and "< 0"
FirstRejectedField(t) ==
    IF ~DateMatches(t.date_purchased) THEN "invalid_date"
    ELSE IF ~(IntParse(t.quantity).ok /\ IntParse(t.quantity).val > 0)
    THEN "invalid_quantity"
    ELSE IF \/ ~FloatParse(t.cost_per_unit).ok \/ ~FloatParse(t.tax).ok
            \/ IsNegative(FloatParse(t.cost_per_unit).val)
            \/ IsNegative(FloatParse(t.tax).val)
    THEN "invalid_cost_tax"
    ELSE "select_store"

\* C26: a submitted step-1 form is answered with exactly one message: that of
\* the first invalid field in the order date, quantity, cost/tax, after which
\* the flow has ended, or the store selection when the date is MM/DD/YYYY, the
\* quantity an integer > 0 and cost and tax numbers >= 0, and only then does
\* the flow go on.
C26_Step1ChecksInOrder ==
    AddRun =>
        /\ Len(Step1Messages) = 1
        /\ Step1Messages[1].kind = FirstInvalidField(form.step1)
        /\ Step1Passed <=> FirstInvalidField(form.step1) = "select_store"
        /\ ~Step1Passed => pc = "done"

\* C26 with "numbers >= 0" read as the handler's test
C26_Step1ChecksInOrderAsCoded ==
    AddRun =>
        /\ Len(Step1Messages) = 1
        /\ Step1Messages[1].kind = FirstRejectedField(form.step1)
        /\ Step1Passed <=> FirstRejectedField(form.step1) = "select_store"
        /\ ~Step1Passed => pc = "done"

\* a step-1 form with cost "nan" was taken and the store selection shown
C26_NanCostPassedStep1 ==
    /\ AddRun /\ Step1Passed
    /\ form.step1.cost_per_unit = <<"n", "a", "n">>
    /\ form.cost_per_unit = <<"n", "a", "n">>
    /\ Step1Messages[1].kind = "select_store"

\* a form wrong in its date, its quantity and its tax is answered with the
\* date message only
C26_ThreeInvalidOneMessage ==
    /\ AddRun /\ pc = "done"
    /\ ~DateMatches(form.step1.date_purchased)
    /\ ~IntParse(form.step1.quantity).ok
    /\ ~FloatParse(form.step1.tax).ok
    /\ msgs = <<Msg("invalid_date")>>

-----------------------------------------------------------------------------
(* An inventory edit that changes the product name only (SpecEdit) *)

\* the inventory sheet as it was when the flow started: edits add no row
SheetBeforeEdit ==
    (CHOOSE b \in EditBooks :
        Len(b[UserSheetName]) = Len(sheet[UserSheetName]))[UserSheetName]

\* the name input holds a new name, every other input its pre-filled text
NameOnlyEdit ==
    /\ EditRan /\ ret.op = "edit"
    /\ NameChanged(ret.typed.product_name, form.item)
    /\ \A f \in EditFields("edit") \ {"product_name"} :
        ret.typed[f] = form.defaults[f]

SameCellValues(before, after) ==
    /\ IntOrZero(after[ColIndex("D")]) = IntOrZero(before[ColIndex("D")])
    /\ CurrencyOrZero(after[ColIndex("L")]) = CurrencyOrZero(before[ColIndex("L")])
    /\ CurrencyOrZero(after[ColIndex("M")]) = CurrencyOrZero(before[ColIndex("M")])

\* C27: after an inventory edit in which only the product name was changed,
\* the other inputs left as pre-filled, the row's quantity purchased (column
\* D), cost (L) and tax total (M) hold the same values as before the edit.
C27_NameOnlyEditKeepsQuantityCostTax ==
    NameOnlyEdit =>
        SameCellValues(SheetBeforeEdit[form.item.row_number],
                       sheet[UserSheetName][form.item.row_number])

\* the row purchased 4, available 3, tax total 10.00 after such an edit:
\* column D holds 3 and column M 7.5
C27_NameOnlyEditChangedQuantityAndTax ==
    /\ NameOnlyEdit
    /\ LastMsg.kind = "edit_success"
    /\ SheetBeforeEdit[form.item.row_number][ColIndex("D")] = <<"4">>
    /\ sheet[UserSheetName][form.item.row_number][ColIndex("D")] = <<"3">>
    /\ sheet[UserSheetName][form.item.row_number][ColIndex("M")] = <<"7", ".", "5">>

-----------------------------------------------------------------------------
(* Repeated and mixed clicks on one delete confirmation view (SpecRemove) *)

\* C28: over any interleaving of Confirm and Cancel clicks on one delete
\* confirmation view, delete_row is called at most once, and no delete_row
\* call is made once Cancel has been clicked.
C28_AtMostOneDeleteAndNoneAfterCancel ==
    /\ [](Cardinality(DeleteCalls) <= 1)
    /\ [][Clicks("cancel") # {} =>
            Cardinality(DeleteCalls)' = Cardinality(DeleteCalls)]_vars

\* two Confirm clicks on one view, each of which deleted a row
C28_TwoRowsDeletedFromOneView ==
    /\ pc = "confirm_view"
    /\ Cardinality(Clicks("confirm")) = 2
    /\ Cardinality({i \in DeleteCalls : calls[i].result = "True"}) = 2

\* Cancel was clicked and answered first, the Confirm clicked after it
\* deleted the row
C28_RowDeletedAfterCancel ==
    /\ pc = "confirm_view"
    /\ Len(form.handlers) = 2
    /\ form.handlers[1].button = "cancel"
    /\ form.handlers[2] = Handler("confirm", "sent")
    /\ \E m \in 1..Len(msgs) : msgs[m].kind = "delete_cancelled"
    /\ LastMsg.kind = "delete_success"
    /\ \E i \in DeleteCalls : calls[i].result = "True"

-----------------------------------------------------------------------------
(* The outcome reports of one Confirm click (SpecRemove) *)

\* the view took one click, on Confirm, and its handler has finished
SingleConfirmDone ==
    /\ pc = "confirm_view"
    /\ registered
    /\ form.handlers = <<Handler("confirm", "done")>>

\* the success and error messages sent since the command started
OutcomeReports ==
    {m \in 1..Len(msgs) : msgs[m].kind \in {"delete_success", "error"}}

RowDeleted == \E i \in DeleteCalls : calls[i].result = "True"

\* C29: a single Confirm in the delete flow produces exactly one outcome
\* report, the success message only if the row was deleted and the error
\* message only if it was not, never both for the same click.
C29_OneOutcomeReportMatchingStore ==
    SingleConfirmDone =>
        /\ Cardinality(OutcomeReports) = 1
        /\ \A m \in OutcomeReports :
            /\ msgs[m].kind = "delete_success" => RowDeleted
            /\ msgs[m].kind = "error" => ~RowDeleted

\* the same, for the clicks whose message edit did not fail
C29_OneOutcomeReportUnlessEditFails ==
    (SingleConfirmDone /\ LastMsg # ErrorMsg("error", "Failed to edit message")) =>
        /\ Cardinality(OutcomeReports) = 1
        /\ \A m \in OutcomeReports :
            /\ msgs[m].kind = "delete_success" => RowDeleted
            /\ msgs[m].kind = "error" => ~RowDeleted

\* one click: the row is deleted, the success message sent, and the failed
\* message edit reported as an error after it
C29_SuccessThenErrorForOneClick ==
    /\ SingleConfirmDone
    /\ RowDeleted
    /\ Len(msgs) >= 2
    /\ msgs[Len(msgs) - 1].kind = "delete_success"
    /\ LastMsg = ErrorMsg("error", "Failed to edit message")

-----------------------------------------------------------------------------
(* /inventory and its pagination view (bot.py InventoryPaginationView) *)

\* most records an inventory holds
MaxItems == 25

\* "items_per_page=10" of the inventory command, and its "len(items) <= 10"
ITEMS_PER_PAGE == 10

PyMin(a, b) == IF a <= b THEN a ELSE b
PyMax(a, b) == IF a >= b THEN a ELSE b

\* "s[a:b]" for 0 <= a
PySlice(s, a, b) == SubSeq(s, a + 1, PyMin(b, Len(s)))

\* the page count taken as len(items) // items_per_page
MaxPageOfLen(items, items_per_page) == PyMax(0, Len(items) \div items_per_page)

\* "max(0, (len(items) - 1) // items_per_page)"
MaxPage(items, items_per_page) ==
    PyMax(0, (Len(items) - 1) \div items_per_page)

\* create_embed(page): the fields of the page's items and the footer
CreateEmbed(view, page) ==
    LET start_idx == page * view.items_per_page
        end_idx == PyMin(start_idx + view.items_per_page, Len(view.items))
    IN  [title |-> Len(view.items),
         page_items |-> PySlice(view.items, start_idx, end_idx),
         footer |-> <<page + 1, view.max_page + 1>>]

\* InventoryPaginationView.__init__ with the decorators' button states
NewPaginationView(items, items_per_page) ==
    [items |-> items, items_per_page |-> items_per_page,
     current_page |-> 0, max_page |-> MaxPage(items, items_per_page),
     previous_disabled |-> TRUE, next_disabled |-> FALSE, alive |-> TRUE]

\* "self.previous_button.disabled = ..., self.next_button.disabled = ..."
UpdateButtons(view) ==
    [view EXCEPT !.previous_disabled = (view.current_page = 0),
                 !.next_disabled = (view.current_page = view.max_page)]

\* what a message shows: the embed and the two buttons
Shown(embed, view) ==
    [embed |-> embed, previous_disabled |-> view.previous_disabled,
     next_disabled |-> view.next_disabled]

\* the records read_inventory returns, each stood for by its position
ItemsOf(n) == [i \in 1..n |-> i]

InitPages ==
    /\ pc = "idle"
    /\ registered \in BOOLEAN
    /\ form = NoForm
    /\ sheet = <<>>
    /\ white = {}
    /\ calls = <<>>
    /\ msgs = <<>>
    /\ ret = <<>>

\* bot.py inventory(): registration check, read_inventory, the first page
CmdInventory ==
    \E n \in 0..MaxItems, readOk \in BOOLEAN, sendOk \in BOOLEAN :
        /\ pc = "idle"
        /\ IF ~registered
           THEN /\ msgs' = Append(msgs, Msg("not_registered"))
                /\ UNCHANGED <<calls, form, ret>>
                /\ pc' = "done"
           ELSE IF ~readOk
           THEN /\ calls' = Append(calls, Call("read_inventory", UserSheetName,
                                               0, <<>>, "raise"))
                /\ msgs' = Append(msgs, ErrorMsg("error", "Failed to read inventory"))
                /\ UNCHANGED <<form, ret>>
                /\ pc' = "done"
           ELSE LET items == ItemsOf(n)
                    v0 == NewPaginationView(items, ITEMS_PER_PAGE)
                    embed == CreateEmbed(v0, 0)
                    view == [v0 EXCEPT !.previous_disabled = TRUE,
                                       !.next_disabled =
                                           IF Len(items) <= ITEMS_PER_PAGE
                                           THEN TRUE ELSE @]
                IN  /\ calls' = Append(calls, Call("read_inventory", UserSheetName,
                                                   0, <<>>, "ok"))
                    /\ IF items = <<>>
                       THEN /\ msgs' = Append(msgs, Msg("inventory_empty"))
                            /\ UNCHANGED <<form, ret>>
                            /\ pc' = "done"
                       ELSE IF ~sendOk
                       THEN /\ msgs' = Append(msgs, ErrorMsg("error", "Failed to send"))
                            /\ UNCHANGED <<form, ret>>
                            /\ pc' = "done"
                       ELSE /\ msgs' = Append(msgs, Msg("inventory_page"))
                            /\ form' = view
                            /\ ret' = [clicked |-> "none", embed |-> embed,
                                       delivered |-> TRUE,
                                       shown |-> Shown(embed, view)]
                            /\ pc' = "pages"
        /\ UNCHANGED <<registered, sheet, white>>

\* update_view: the button states, the embed of the current page, and the
\* edit of the message, which changes what is shown unless it fails
UpdateView(view, button, editOk) ==
    LET v == UpdateButtons(view)
        embed == CreateEmbed(v, v.current_page)
    IN  /\ form' = v
        /\ ret' = [clicked |-> button, embed |-> embed, delivered |-> editOk,
                   shown |-> IF editOk THEN Shown(embed, v) ELSE ret.shown]

\* a click on "Previous", which the message shows enabled
PreviousButton ==
    \E editOk \in BOOLEAN :
        /\ pc = "pages"
        /\ form.alive
        /\ ~ret.shown.previous_disabled
        /\ UpdateView([form EXCEPT !.current_page = PyMax(0, @ - 1)],
                      "previous", editOk)
        /\ UNCHANGED <<pc, registered, sheet, white, calls, msgs>>

\* a click on "Next", which the message shows enabled
NextButton ==
    \E editOk \in BOOLEAN :
        /\ pc = "pages"
        /\ form.alive
        /\ ~ret.shown.next_disabled
        /\ UpdateView([form EXCEPT !.current_page = PyMin(form.max_page, @ + 1)],
                      "next", editOk)
        /\ UNCHANGED <<pc, registered, sheet, white, calls, msgs>>

\* "super().__init__(timeout=300)": the view stops dispatching clicks
PagesTimeout ==
    /\ pc = "pages"
    /\ form.alive
    /\ form' = [form EXCEPT !.alive = FALSE]
    /\ UNCHANGED <<pc, registered, sheet, white, calls, msgs, ret>>

NextPages ==
    \/ CmdInventory
    \/ PreviousButton
    \/ NextButton
    \/ PagesTimeout

SpecPages == InitPages /\ [][NextPages]_vars

\* the items of page p of a list of n items, per to a page
PageRange(p, per, n) ==
    {i \in 1..n : p * per <= i - 1 /\ i - 1 < PyMin((p + 1) * per, n)}

\* the positions in the list of the items an embed shows
EmbedItems(embed) == {embed.page_items[k] : k \in 1..Len(embed.page_items)}

\* C30: for the pagination view over a non-empty item list, after any
\* sequence of Previous/Next clicks, 0 <= current_page <= max_page with
\* max_page = (len(items) - 1) div items_per_page, Previous is disabled
\* exactly when current_page = 0, Next exactly when current_page = max_page,
\* and the page built for display (and shown, when the message edit went
\* through) holds the items
\* [current_page * items_per_page, min((current_page + 1) * items_per_page, len(items))).
C30_PaginationStaysInRangeAndShowsItsPage ==
    pc = "pages" =>
        LET n == Len(form.items)
            per == form.items_per_page
            range == PageRange(form.current_page, per, n)
        IN  /\ n > 0
            /\ form.max_page = (n - 1) \div per
            /\ 0 <= form.current_page /\ form.current_page <= form.max_page
            /\ form.previous_disabled <=> form.current_page = 0
            /\ form.next_disabled <=> form.current_page = form.max_page
            /\ EmbedItems(ret.embed) = range
            /\ Len(ret.embed.page_items) = Cardinality(range)
            /\ \A k \in 1..Len(ret.embed.page_items) :
                ret.embed.page_items[k] = form.current_page * per + k
            /\ ret.delivered =>
                /\ ret.shown.embed = ret.embed
                /\ ret.shown.previous_disabled = form.previous_disabled
                /\ ret.shown.next_disabled = form.next_disabled

\* 25 items: the last click was Previous from the last page, and the second
\* page, items 11 to 20, is shown with both buttons enabled
C30_Witness ==
    /\ pc = "pages"
    /\ Len(form.items) = 25
    /\ ret.clicked = "previous"
    /\ ret.delivered
    /\ form.current_page = 1
    /\ form.max_page = 2
    /\ ret.shown.embed.page_items = [k \in 1..10 |-> 10 + k]
    /\ ~ret.shown.previous_disabled
    /\ ~ret.shown.next_disabled

\* 25 items: the last page, items 21 to 25, with Next disabled
C30_WitnessLastPage ==
    /\ pc = "pages"
    /\ Len(form.items) = 25
    /\ form.current_page = 2
    /\ ret.delivered
    /\ ret.shown.embed.page_items = <<21, 22, 23, 24, 25>>
    /\ ret.shown.next_disabled

\* a click on Next, shown enabled after a failed edit, taken on the last page
C30_WitnessClampedNext ==
    /\ pc = "pages"
    /\ ret.clicked = "next"
    /\ ret.delivered
    /\ form.current_page = form.max_page
    /\ form.max_page = 1
    /\ Len(form.items) = 20

=============================================================================
